---- MODULE Spec2Model ----
(***************************************************************************)
(* Housing-market scoring pipeline (ohsono/stats421).                      *)
(*                                                                         *)
(* Numbers.  The program computes on IEEE doubles held in pandas Series.   *)
(* The model computes on exact rationals <<n, d>> (d > 0, lowest terms)    *)
(* and keeps pandas' missing value as NaN.  A z-score, which divides by a  *)
(* square root, is kept exactly as its sign and its square.  Prices are in *)
(* thousands of dollars.                                                   *)
(***************************************************************************)
EXTENDS Integers, Sequences, FiniteSets, TLC

VARIABLES
    master,     \* the master table read from CSV: a sequence of entity series
    snapshot,   \* the per-entity metric table (metrics / county_stats DataFrame)
    result,     \* the table the last operation returned
    pc          \* which operation produced `result`

vars == <<master, snapshot, result, pc>>

-----------------------------------------------------------------------------
(* Exact arithmetic standing in for float64.  Common factors are divided   *)
(* out before a product is formed, so that the products stay small.        *)

Abs(x) == IF x < 0 THEN -x ELSE x

Sign(x) == IF x < 0 THEN -1 ELSE IF x > 0 THEN 1 ELSE 0

RECURSIVE GCD(_, _)
GCD(a, b) == IF b = 0 THEN a ELSE GCD(b, a % b)

Rat(n, d) ==
    LET g == GCD(Abs(n), Abs(d))
        s == IF d < 0 THEN -1 ELSE 1
    IN  <<(s * n) \div g, (s * d) \div g>>

NaN == << >>

IsNaN(x) == x = NaN

Num(k) == <<k, 1>>

FAdd(a, b) ==
    IF IsNaN(a) \/ IsNaN(b) THEN NaN
    ELSE LET g == GCD(a[2], b[2])
         IN  Rat(a[1] * (b[2] \div g) + b[1] * (a[2] \div g), (a[2] \div g) * b[2])

FSub(a, b) ==
    IF IsNaN(a) \/ IsNaN(b) THEN NaN
    ELSE LET g == GCD(a[2], b[2])
         IN  Rat(a[1] * (b[2] \div g) - b[1] * (a[2] \div g), (a[2] \div g) * b[2])

FMul(a, b) ==
    IF IsNaN(a) \/ IsNaN(b) THEN NaN
    ELSE LET g == GCD(Abs(a[1]), b[2])
             h == GCD(Abs(b[1]), a[2])
         IN  Rat((a[1] \div g) * (b[1] \div h), (a[2] \div h) * (b[2] \div g))

\* float division: 0/0 is NaN
FDiv(a, b) ==
    IF IsNaN(a) \/ IsNaN(b) THEN NaN
    ELSE IF a[1] = 0 /\ b[1] = 0 THEN NaN
    ELSE LET g == GCD(Abs(a[1]), Abs(b[1]))
             h == GCD(b[2], a[2])
         IN  Rat((a[1] \div g) * (b[2] \div h), (a[2] \div h) * (b[1] \div g))

\* n1/d1 < n2/d2 for d1, d2 > 0, by integer parts and then the reciprocals
\* of the fractional parts, so that no product is formed
RECURSIVE RatLess(_, _, _, _)
RatLess(n1, d1, n2, d2) ==
    LET q1 == n1 \div d1
        q2 == n2 \div d2
        r1 == n1 % d1
        r2 == n2 % d2
    IN  IF q1 # q2 THEN q1 < q2
        ELSE IF r2 = 0 THEN FALSE
        ELSE IF r1 = 0 THEN TRUE
        ELSE RatLess(d2, r2, d1, r1)

\* every comparison with NaN is False
FLess(a, b) == ~IsNaN(a) /\ ~IsNaN(b) /\ RatLess(a[1], a[2], b[1], b[2])

FLeq(a, b) == ~IsNaN(a) /\ ~IsNaN(b) /\ ~RatLess(b[1], b[2], a[1], a[2])

FEq(a, b) == ~IsNaN(a) /\ ~IsNaN(b) /\ a = b

-----------------------------------------------------------------------------
(* pandas Series reductions; all of them skip NaN.                         *)

NonNaN(series) == SelectSeq(series, LAMBDA x : ~IsNaN(x))

RECURSIVE SSum(_)
SSum(series) ==
    IF series = << >> THEN Num(0)
    ELSE FAdd(Head(series), SSum(Tail(series)))

SMin(series) ==
    LET v == {series[i] : i \in DOMAIN series} \ {NaN}
    IN  IF v = {} THEN NaN ELSE CHOOSE m \in v : \A y \in v : ~FLess(y, m)

SMax(series) ==
    LET v == {series[i] : i \in DOMAIN series} \ {NaN}
    IN  IF v = {} THEN NaN ELSE CHOOSE m \in v : \A y \in v : ~FLess(m, y)

SMean(series) ==
    LET v == NonNaN(series)
    IN  IF v = << >> THEN NaN ELSE FDiv(SSum(v), Num(Len(v)))

SMedian(series) ==
    LET v == SortSeq(NonNaN(series), FLess)
        n == Len(v)
    IN  IF n = 0 THEN NaN
        ELSE IF n % 2 = 1 THEN v[(n + 1) \div 2]
        ELSE FDiv(FAdd(v[n \div 2], v[n \div 2 + 1]), Num(2))

\* Series.std() is the square root of the sample variance (ddof = 1), which
\* is NaN for fewer than two values.  The model keeps the variance.
SVar(series) ==
    LET v == NonNaN(series)
        n == Len(v)
        m == SMean(series)
        sq == [i \in DOMAIN v |-> FMul(FSub(v[i], m), FSub(v[i], m))]
    IN  IF n < 2 THEN NaN ELSE FDiv(SSum(sq), Num(n - 1))

\* a function on 1..n as the sequence it is
AsSeq(f) == f \o << >>

Column(df, col) == AsSeq([i \in DOMAIN df |-> df[i][col]])

RowsOf(df) == {df[i] : i \in DOMAIN df}

\* a weighted sum of component columns, written term by term in the source
WeightedScore(w, comps) ==
    SSum([k \in DOMAIN w |-> FMul(comps[k], w[k])])

WeightTotal(w) == SSum(w)

-----------------------------------------------------------------------------
(* z-scores.  z = (x - mean) / std is kept exactly as the record           *)
(* [s |-> sign, q |-> z * z, w |-> 1]; a weighted z-score w * z keeps its  *)
(* weight in the field w.                                                  *)

ZZero == [s |-> 0, q |-> Num(0), w |-> Num(1)]

ZOf(dev, var) ==
    IF IsNaN(dev) \/ IsNaN(var) THEN NaN
    ELSE [s |-> Sign(dev[1]), q |-> FDiv(FMul(dev, dev), var), w |-> Num(1)]

\* variant of ZNeg that keeps the sign
ZNegDropped(z) == z

ZNeg(z) == IF IsNaN(z) THEN NaN ELSE [s |-> -z.s, q |-> z.q, w |-> z.w]

\* |a| < |b|
ZAbsLess(a, b) ==
    IF a.w = b.w THEN FLess(a.q, b.q)
    ELSE FLess(FMul(FMul(a.w, a.w), a.q), FMul(FMul(b.w, b.w), b.q))

ZLess(a, b) ==
    /\ ~IsNaN(a) /\ ~IsNaN(b)
    /\ \/ a.s < b.s
       \/ a.s = 1 /\ b.s = 1 /\ ZAbsLess(a, b)
       \/ a.s = -1 /\ b.s = -1 /\ ZAbsLess(b, a)

\* w * z for a weight w > 0
ZTimes(w, z) ==
    IF IsNaN(z) THEN NaN ELSE [s |-> z.s, q |-> z.q, w |-> FMul(w, z.w)]

\* A weighted sum of z-scores of different columns is kept as its terms.
ZWeighted(w, zs) ==
    IF \E k \in DOMAIN zs : IsNaN(zs[k]) THEN NaN
    ELSE [k \in DOMAIN w |-> ZTimes(w[k], zs[k])]

\* the largest k in lo..hi with k * k <= x
RECURSIVE SqrtBetween(_, _, _)
SqrtBetween(x, lo, hi) ==
    IF lo = hi THEN lo
    ELSE LET mid == (lo + hi + 1) \div 2
         IN  IF mid * mid <= x THEN SqrtBetween(x, mid, hi)
             ELSE SqrtBetween(x, lo, mid - 1)

ISqrt(x) == SqrtBetween(x, 0, 46340)

\* floor(n * 10^k / d) for n >= 0, d > 0, by long division
RECURSIVE ScaledFloor(_, _, _)
ScaledFloor(n, d, k) ==
    IF k = 0 THEN n \div d
    ELSE (n \div d) * 10^k + ScaledFloor((n % d) * 10, d, k - 1)

\* w * z in hundredths, truncated toward zero: |z| is taken to four decimal
\* places first, so the result is below the true value by less than 2
ZCenti(z) ==
    z.s * ((z.w[1] * ISqrt(ScaledFloor(z.q[1], z.q[2], 8))) \div (z.w[2] * 100))

RECURSIVE ZSumCenti(_)
ZSumCenti(zsum) ==
    IF zsum = << >> THEN 0 ELSE ZCenti(Head(zsum)) + ZSumCenti(Tail(zsum))

\* Order of two weighted sums over the same columns: exact when every term
\* agrees in direction, otherwise decided on the hundredths when they are
\* further apart than the truncation error (each term is off by less than 2).
ZSumLess(a, b) ==
    /\ ~IsNaN(a) /\ ~IsNaN(b)
    /\ LET le == \A k \in DOMAIN a : ~ZLess(b[k], a[k])
           ge == \A k \in DOMAIN a : ~ZLess(a[k], b[k])
       IN  IF le /\ ge THEN FALSE
           ELSE IF le THEN TRUE
           ELSE IF ge THEN FALSE
           ELSE ZSumCenti(a) + 4 * Len(a) <= ZSumCenti(b)

\* ((z + 3) / 6) * 100 clipped to [0, 100], on the hundredths of z
ZDisplay(zsum) ==
    IF IsNaN(zsum) THEN NaN
    ELSE LET v == Rat((ZSumCenti(zsum) + 300) * 100, 600)
         IN  IF FLess(v, Num(0)) THEN Num(0)
             ELSE IF FLess(Num(100), v) THEN Num(100) ELSE v

\* the order of two values of a score column: a weighted sum of z-scores in
\* the z-score columns, a number in the others
ValueLess(col, a, b) ==
    IF col \in {"z_score_final", "z_score_v3"} THEN ZSumLess(a, b)
    ELSE FLess(a, b)

\* DataFrame.sort_values(col, ascending=False): descending, NaN last.  The
\* default sort kind is not stable, so rows that tie may come out in any order.
SortedDescending(df, col) ==
    LET D == DOMAIN df
        less == [i \in D |-> [j \in D |-> ValueLess(col, df[i][col], df[j][col])]]
        miss == [i \in D |-> IsNaN(df[i][col])]
        orders ==
            {p \in [D -> D] :
                /\ \A i, j \in D : i # j => p[i] # p[j]
                /\ \A i, j \in D :
                      i < j => /\ ~less[p[i]][p[j]]
                               /\ (miss[p[i]] => miss[p[j]])}
    IN  {[k \in D |-> df[p[k]]] : p \in orders}

-----------------------------------------------------------------------------
(* AllCountyScoringMethodology (scoring_all_counties.py)                   *)

estimate_yield(price) ==
    IF FLess(price, Num(350)) THEN Rat(65, 10)
    ELSE IF FLess(price, Num(450)) THEN Num(6)
    ELSE IF FLess(price, Num(550)) THEN Rat(55, 10)
    ELSE IF FLess(price, Num(700)) THEN Num(5)
    ELSE Rat(45, 10)

\* variant of normalize that divides by the maximum instead of the range
normalize_by_max(series) ==
    LET max_val == SMax(series)
    IN  [i \in DOMAIN series |-> FMul(FDiv(series[i], max_val), Num(100))]

normalize(series) ==
    LET min_val == SMin(series)
        max_val == SMax(series)
    IN  IF FEq(max_val, min_val)
        THEN [i \in DOMAIN series |-> Num(50)]
        ELSE [i \in DOMAIN series |->
                FMul(FDiv(FSub(series[i], min_val), FSub(max_val, min_val)),
                     Num(100))]

\* the weights written into the final_score expression, in its order:
\* affordability, growth, demographic, yield
AllCountyWeightsYieldDoubled ==
    <<Rat(30, 100), Rat(40, 100), Rat(20, 100), Rat(20, 100)>>

AllCountyWeights == <<Rat(30, 100), Rat(40, 100), Rat(20, 100), Rat(10, 100)>>

\* calculate_scores before its final sort
calculate_scores(df) ==
    LET yields == [i \in DOMAIN df |-> estimate_yield(df[i].price)]
        median_ca_price == SMedian(Column(df, "price"))
        affordability_raw ==
            [i \in DOMAIN df |->
                FMul(FDiv(FSub(median_ca_price, df[i].price), median_ca_price),
                     Num(100))]
        growth_raw ==
            [i \in DOMAIN df |->
                FAdd(FMul(df[i].yoy_growth, Rat(7, 10)),
                     FMul(df[i].cagr_3y, Rat(3, 10)))]
        demographic_raw == [i \in DOMAIN df |-> FMul(df[i].pop_growth, Num(10))]
        yield_raw == yields
        affordability_norm == normalize(affordability_raw)
        growth_norm == normalize(growth_raw)
        demographic_norm == normalize(demographic_raw)
        yield_norm == normalize(yield_raw)
    IN  [i \in DOMAIN df |->
            [county |-> df[i].county,
             price |-> df[i].price,
             yoy_growth |-> df[i].yoy_growth,
             cagr_3y |-> df[i].cagr_3y,
             pop_growth |-> df[i].pop_growth,
             yield |-> yields[i],
             affordability_raw |-> affordability_raw[i],
             growth_raw |-> growth_raw[i],
             demographic_raw |-> demographic_raw[i],
             yield_raw |-> yield_raw[i],
             affordability_norm |-> affordability_norm[i],
             growth_norm |-> growth_norm[i],
             demographic_norm |-> demographic_norm[i],
             yield_norm |-> yield_norm[i],
             final_score |->
                WeightedScore(AllCountyWeights,
                              <<affordability_norm[i], growth_norm[i],
                                demographic_norm[i], yield_norm[i]>>)]]

CalculateScores ==
    /\ pc = "snapshot"
    /\ \E t \in SortedDescending(calculate_scores(snapshot), "final_score") :
          result' = [table |-> t, weights |-> <<AllCountyWeights>>]
    /\ pc' = "calculate_scores"
    /\ UNCHANGED <<master, snapshot>>

\* save_results: the columns of the sorted table that the model carries, with
\* rank = range(1, len + 1) in front
save_results(df) ==
    [i \in DOMAIN df |->
        [rank |-> i,
         county |-> df[i].county,
         price |-> df[i].price,
         yoy_growth |-> df[i].yoy_growth,
         cagr_3y |-> df[i].cagr_3y,
         pop_growth |-> df[i].pop_growth,
         yield |-> df[i].yield,
         affordability_norm |-> df[i].affordability_norm,
         growth_norm |-> df[i].growth_norm,
         demographic_norm |-> df[i].demographic_norm,
         yield_norm |-> df[i].yield_norm,
         final_score |-> df[i].final_score]]

SaveResults ==
    /\ pc = "calculate_scores"
    /\ result' = [table |-> save_results(result.table), weights |-> result.weights]
    /\ pc' = "save_results"
    /\ UNCHANGED <<master, snapshot>>

-----------------------------------------------------------------------------
(* ZScoreCountyScoringMethodology (scoring_all_counties_zscore.py)         *)

\* `std == 0` is False for a NaN std; the division then gives NaN throughout
zscore(series) ==
    LET mean == SMean(series)
        var == SVar(series)
    IN  IF FEq(var, Num(0))
        THEN [i \in DOMAIN series |-> ZZero]
        ELSE [i \in DOMAIN series |-> ZOf(FSub(series[i], mean), var)]

normalize_minmax(series) ==
    LET min_val == SMin(series)
        max_val == SMax(series)
    IN  IF FEq(max_val, min_val)
        THEN [i \in DOMAIN series |-> Num(50)]
        ELSE [i \in DOMAIN series |->
                FMul(FDiv(FSub(series[i], min_val), FSub(max_val, min_val)),
                     Num(100))]

\* z_score_final: growth, affordability, demographics, yield
ZScoreWeights == <<Rat(50, 100), Rat(25, 100), Rat(15, 100), Rat(10, 100)>>

\* final_score_old: affordability, growth, demographic, yield
ZScoreOldWeights == <<Rat(30, 100), Rat(40, 100), Rat(20, 100), Rat(10, 100)>>

\* calculate_scores_zscore before its final sort
calculate_scores_zscore(df) ==
    LET yields == [i \in DOMAIN df |-> estimate_yield(df[i].price)]
        prices == Column(df, "price")
        growth_combined ==
            [i \in DOMAIN df |->
                FAdd(FMul(df[i].cagr_3y, Rat(7, 10)),
                     FMul(df[i].yoy_growth, Rat(3, 10)))]
        z_growth == zscore(growth_combined)
        z_price == zscore(prices)
        z_affordability == [i \in DOMAIN df |-> ZNeg(z_price[i])]
        z_demographics == zscore(Column(df, "pop_growth"))
        z_yield == zscore(yields)
        z_score_final ==
            [i \in DOMAIN df |->
                ZWeighted(ZScoreWeights,
                          <<z_growth[i], z_affordability[i], z_demographics[i],
                            z_yield[i]>>)]
        affordability_raw ==
            [i \in DOMAIN df |->
                FMul(FDiv(FSub(SMedian(prices), df[i].price), SMedian(prices)),
                     Num(100))]
        affordability_norm == normalize_minmax(affordability_raw)
        growth_norm == normalize_minmax(growth_combined)
        demographic_norm ==
            normalize_minmax([i \in DOMAIN df |-> FMul(df[i].pop_growth, Num(10))])
        yield_norm == normalize_minmax(yields)
    IN  [i \in DOMAIN df |->
            [county |-> df[i].county,
             price |-> df[i].price,
             yoy_growth |-> df[i].yoy_growth,
             cagr_3y |-> df[i].cagr_3y,
             pop_growth |-> df[i].pop_growth,
             yield |-> yields[i],
             growth_combined |-> growth_combined[i],
             z_growth |-> z_growth[i],
             z_price |-> z_price[i],
             z_affordability |-> z_affordability[i],
             z_demographics |-> z_demographics[i],
             z_yield |-> z_yield[i],
             z_score_final |-> z_score_final[i],
             affordability_raw |-> affordability_raw[i],
             affordability_norm |-> affordability_norm[i],
             growth_norm |-> growth_norm[i],
             demographic_norm |-> demographic_norm[i],
             yield_norm |-> yield_norm[i],
             final_score_old |->
                WeightedScore(ZScoreOldWeights,
                              <<affordability_norm[i], growth_norm[i],
                                demographic_norm[i], yield_norm[i]>>),
             z_score_normalized |-> ZDisplay(z_score_final[i])]]

CalculateScoresZscore ==
    /\ pc = "snapshot"
    /\ \E t \in SortedDescending(calculate_scores_zscore(snapshot),
                                 "z_score_final") :
          result' = [table |-> t, weights |-> <<ZScoreWeights, ZScoreOldWeights>>]
    /\ pc' = "calculate_scores_zscore"
    /\ UNCHANGED <<master, snapshot>>

\* two weighted sums with the same terms: the same float
ZSumTie(a, b) == \A k \in DOMAIN a : ~ZLess(a[k], b[k]) /\ ~ZLess(b[k], a[k])

\* df['z_score_final'].rank(ascending=False).astype(int) on the table sorted
\* by calculate_scores_zscore: the default method gives each of t tied rows
\* below g greater ones the average g + (t + 1) / 2 of their positions, which
\* astype(int) truncates.  Two sums that the model cannot order are taken in
\* the order of the sorted table.
rank_zscore(df) ==
    [i \in DOMAIN df |->
        LET tied == {j \in DOMAIN df :
                        ZSumTie(df[j].z_score_final, df[i].z_score_final)}
            greater ==
                {j \in DOMAIN df \ tied :
                    \/ ZSumLess(df[i].z_score_final, df[j].z_score_final)
                    \/ /\ ~ZSumLess(df[j].z_score_final, df[i].z_score_final)
                       /\ j < i}
        IN  (2 * Cardinality(greater) + Cardinality(tied) + 1) \div 2]

\* show_ranking_differences: the tables it can return, one for each order the
\* sort by final_score_old can give.  The rank of a NaN score is NaN, on
\* which astype(int) raises.
show_ranking_differences(df) ==
    IF \E i \in DOMAIN df : IsNaN(df[i].z_score_final)
    THEN {[raised |-> TRUE, table |-> << >>]}
    ELSE {[raised |-> FALSE,
           table |->
              [i \in DOMAIN df |->
                  LET rank_old == CHOOSE k \in DOMAIN df_old_sorted :
                                      df_old_sorted[k].county = df[i].county
                  IN  [rank_zscore |-> rank_zscore(df)[i],
                       rank_old |-> rank_old,
                       rank_change |-> rank_old - rank_zscore(df)[i]] @@ df[i]]] :
          df_old_sorted \in SortedDescending(df, "final_score_old")}

ShowRankingDifferences ==
    /\ pc = "calculate_scores_zscore"
    /\ \E out \in show_ranking_differences(result.table) :
          result' = [table |-> out.table, weights |-> result.weights,
                     raised |-> out.raised]
    /\ pc' = "show_ranking_differences"
    /\ UNCHANGED <<master, snapshot>>

-----------------------------------------------------------------------------
(* FullCountyRanking, from the metric table on (full_county_ranking.py)    *)

our_normalize(series) ==
    LET min_val == SMin(series)
        max_val == SMax(series)
    IN  IF FEq(max_val, min_val)
        THEN [i \in DOMAIN series |-> Num(50)]
        ELSE [i \in DOMAIN series |->
                FMul(FDiv(FSub(series[i], min_val), FSub(max_val, min_val)),
                     Num(100))]

\* our_score: affordability, growth, demographic, yield
OurWeights == <<Rat(30, 100), Rat(40, 100), Rat(20, 100), Rat(10, 100)>>

\* the scoring half of our_methodology; every county gets the yield 6.0
our_methodology(df) ==
    LET median_price == SMedian(Column(df, "price"))
        affordability_raw ==
            [i \in DOMAIN df |->
                FMul(FDiv(FSub(median_price, df[i].price), median_price),
                     Num(100))]
        growth_raw ==
            [i \in DOMAIN df |->
                FAdd(FMul(df[i].yoy_growth, Rat(7, 10)),
                     FMul(df[i].cagr_3y, Rat(3, 10)))]
        demographic_raw == [i \in DOMAIN df |-> FMul(df[i].pop_growth, Num(10))]
        yield_raw == [i \in DOMAIN df |-> Num(6)]
        affordability_norm == our_normalize(affordability_raw)
        growth_norm == our_normalize(growth_raw)
        demographic_norm == our_normalize(demographic_raw)
        yield_norm == our_normalize(yield_raw)
    IN  [i \in DOMAIN df |->
            [county |-> df[i].county,
             price |-> df[i].price,
             yoy_growth |-> df[i].yoy_growth,
             cagr_3y |-> df[i].cagr_3y,
             pop_growth |-> df[i].pop_growth,
             yield |-> yield_raw[i],
             affordability_raw |-> affordability_raw[i],
             growth_raw |-> growth_raw[i],
             demographic_raw |-> demographic_raw[i],
             yield_raw |-> yield_raw[i],
             affordability_norm |-> affordability_norm[i],
             growth_norm |-> growth_norm[i],
             demographic_norm |-> demographic_norm[i],
             yield_norm |-> yield_norm[i],
             our_score |->
                WeightedScore(OurWeights,
                              <<affordability_norm[i], growth_norm[i],
                                demographic_norm[i], yield_norm[i]>>)]]

z_score(x) ==
    LET mean == SMean(x)
        var == SVar(x)
    IN  IF FEq(var, Num(0))
        THEN [i \in DOMAIN x |-> ZZero]
        ELSE [i \in DOMAIN x |-> ZOf(FSub(x[i], mean), var)]

\* yoy_growth, cagr_3y, -price, pop_growth
SungjinWeights == <<Rat(60, 100), Rat(25, 100), Rat(10, 100), Rat(5, 100)>>

\* ((sungjin_score - min_s) / (max_s - min_s)) * 100, with no guard.  When
\* every score is the same number the quotient is 0 / 0.  Otherwise the
\* quotient is taken on the hundredths of the scores.
SungjinRescale(scores) ==
    LET known == {i \in DOMAIN scores : ~IsNaN(scores[i])}
        constant == \A i, j \in known : scores[i] = scores[j]
        centi == [i \in known |-> ZSumCenti(scores[i])]
        min_s == CHOOSE m \in {centi[i] : i \in known} : \A i \in known : m <= centi[i]
        max_s == CHOOSE m \in {centi[i] : i \in known} : \A i \in known : m >= centi[i]
    IN  [i \in DOMAIN scores |->
            IF i \notin known \/ constant THEN NaN
            ELSE FMul(FDiv(Num(centi[i] - min_s), Num(max_s - min_s)), Num(100))]

\* adds the columns of the z-score method to the table of our_methodology
sungjin_methodology(metrics_df) ==
    LET z_yoy == z_score(Column(metrics_df, "yoy_growth"))
        z_cagr == z_score(Column(metrics_df, "cagr_3y"))
        z_price == z_score(Column(metrics_df, "price"))
        z_pop == z_score(Column(metrics_df, "pop_growth"))
        sungjin_score ==
            [i \in DOMAIN metrics_df |->
                ZWeighted(SungjinWeights,
                          <<z_yoy[i], z_cagr[i], ZNeg(z_price[i]), z_pop[i]>>)]
        sungjin_score_norm == SungjinRescale(sungjin_score)
    IN  [i \in DOMAIN metrics_df |->
            [z_yoy |-> z_yoy[i],
             z_cagr |-> z_cagr[i],
             z_price |-> z_price[i],
             z_pop |-> z_pop[i],
             sungjin_score |-> sungjin_score[i],
             sungjin_score_norm |-> sungjin_score_norm[i]] @@ metrics_df[i]]

combined_score(metrics_df) ==
    [i \in DOMAIN metrics_df |->
        [combined_score |->
            FDiv(FAdd(metrics_df[i].our_score, metrics_df[i].sungjin_score_norm),
                 Num(2))] @@ metrics_df[i]]

\* create_full_ranking after the metric loop: both methods, the combined
\* score, the sort and the rank column
CreateFullRanking ==
    /\ pc = "snapshot"
    /\ \E t \in SortedDescending(
                    combined_score(sungjin_methodology(our_methodology(snapshot))),
                    "combined_score") :
          result' = [table |-> [k \in DOMAIN t |-> [rank |-> k] @@ t[k]],
                     weights |-> <<OurWeights, SungjinWeights>>]
    /\ pc' = "create_full_ranking"
    /\ UNCHANGED <<master, snapshot>>

-----------------------------------------------------------------------------
(* InvestmentScoringMethodology (scoring_methodology.py)                   *)

\* df['county'].map(yield_estimates): NaN for a county outside the table
yield_estimates(county) ==
    CASE county = "Imperial County" -> Num(6)
      [] county = "Kings County" -> Rat(65, 10)
      [] county = "Yuba County" -> Rat(68, 10)
      [] county = "Madera County" -> Rat(62, 10)
      [] county = "Placer County" -> Rat(45, 10)
      [] OTHER -> NaN

ism_normalize(series) ==
    LET min_val == SMin(series)
        max_val == SMax(series)
    IN  IF FEq(max_val, min_val)
        THEN [i \in DOMAIN series |-> Num(50)]
        ELSE [i \in DOMAIN series |->
                FMul(FDiv(FSub(series[i], min_val), FSub(max_val, min_val)),
                     Num(100))]

IsmWeights == <<Rat(30, 100), Rat(40, 100), Rat(20, 100), Rat(10, 100)>>

\* InvestmentScoringMethodology.calculate_scores before its final sort
ism_calculate_scores(df) ==
    LET median_ca_price == SMedian(Column(df, "price"))
        affordability_raw ==
            [i \in DOMAIN df |->
                FMul(FDiv(FSub(median_ca_price, df[i].price), median_ca_price),
                     Num(100))]
        growth_raw ==
            [i \in DOMAIN df |->
                FAdd(FMul(df[i].yoy_growth, Rat(7, 10)),
                     FMul(df[i].cagr_3y, Rat(3, 10)))]
        demographic_raw == [i \in DOMAIN df |-> FMul(df[i].pop_growth, Num(10))]
        yield_raw == [i \in DOMAIN df |-> yield_estimates(df[i].county)]
        affordability_norm == ism_normalize(affordability_raw)
        growth_norm == ism_normalize(growth_raw)
        demographic_norm == ism_normalize(demographic_raw)
        yield_norm == ism_normalize(yield_raw)
    IN  [i \in DOMAIN df |->
            [county |-> df[i].county,
             price |-> df[i].price,
             yoy_growth |-> df[i].yoy_growth,
             cagr_3y |-> df[i].cagr_3y,
             pop_growth |-> df[i].pop_growth,
             yield |-> yield_raw[i],
             affordability_raw |-> affordability_raw[i],
             growth_raw |-> growth_raw[i],
             demographic_raw |-> demographic_raw[i],
             yield_raw |-> yield_raw[i],
             affordability_norm |-> affordability_norm[i],
             growth_norm |-> growth_norm[i],
             demographic_norm |-> demographic_norm[i],
             yield_norm |-> yield_norm[i],
             final_score |->
                WeightedScore(IsmWeights,
                              <<affordability_norm[i], growth_norm[i],
                                demographic_norm[i], yield_norm[i]>>)]]

IsmCalculateScores ==
    /\ pc = "snapshot"
    /\ \E t \in SortedDescending(ism_calculate_scores(snapshot), "final_score") :
          result' = [table |-> t, weights |-> <<IsmWeights>>]
    /\ pc' = "ism_calculate_scores"
    /\ UNCHANGED <<master, snapshot>>

\* the scenarios of sensitivity_analysis: afford, growth, demo, yield
Scenarios ==
    <<[name |-> "Current (Balanced)",
       weights |-> <<Rat(30, 100), Rat(40, 100), Rat(20, 100), Rat(10, 100)>>],
      [name |-> "Growth-Heavy",
       weights |-> <<Rat(20, 100), Rat(60, 100), Rat(10, 100), Rat(10, 100)>>],
      [name |-> "Cash Flow Focus",
       weights |-> <<Rat(20, 100), Rat(20, 100), Rat(10, 100), Rat(50, 100)>>],
      [name |-> "Affordable + Growth",
       weights |-> <<Rat(40, 100), Rat(40, 100), Rat(10, 100), Rat(10, 100)>>],
      [name |-> "Demographics-Driven",
       weights |-> <<Rat(25, 100), Rat(25, 100), Rat(40, 100), Rat(10, 100)>>]>>

\* adds one score column per scenario to df; the sorted copies are only printed
sensitivity_analysis(df) ==
    [i \in DOMAIN df |->
        [county |-> df[i].county,
         affordability_norm |-> df[i].affordability_norm,
         growth_norm |-> df[i].growth_norm,
         demographic_norm |-> df[i].demographic_norm,
         yield_norm |-> df[i].yield_norm,
         final_score |-> df[i].final_score,
         scenario_score |->
            [k \in DOMAIN Scenarios |->
                WeightedScore(Scenarios[k].weights,
                              <<df[i].affordability_norm, df[i].growth_norm,
                                df[i].demographic_norm, df[i].yield_norm>>)]]]

SensitivityAnalysis ==
    /\ pc = "ism_calculate_scores"
    /\ result' = [table |-> sensitivity_analysis(result.table),
                  weights |-> [k \in DOMAIN Scenarios |-> Scenarios[k].weights]]
    /\ pc' = "sensitivity_analysis"
    /\ UNCHANGED <<master, snapshot>>

-----------------------------------------------------------------------------
(* ZScoreV3Scoring.run, from the mapped table on (scoring_all_counties_    *)
(* zscore_v3.py)                                                           *)

\* `series * 0` keeps a NaN entry NaN
v3_zscore(series) ==
    LET mean == SMean(series)
        var == SVar(series)
    IN  IF FEq(var, Num(0))
        THEN [i \in DOMAIN series |-> IF IsNaN(series[i]) THEN NaN ELSE ZZero]
        ELSE [i \in DOMAIN series |-> ZOf(FSub(series[i], mean), var)]

FillNa(series, value) ==
    [i \in DOMAIN series |-> IF IsNaN(series[i]) THEN value ELSE series[i]]

\* z_income: yield, rent growth
V3IncomeWeights == <<Rat(67, 100), Rat(33, 100)>>

\* z_score_v3: growth, income, affordability, demographics
V3Weights == <<Rat(50, 100), Rat(10, 100), Rat(25, 100), Rat(15, 100)>>

\* steps 3 to 5 of run, before the final sort
v3_score(df) ==
    LET avg_rent == SMedian(Column(df, "mapped_rent"))
        avg_rent_yoy == SMedian(Column(df, "mapped_rent_yoy"))
        rent_final == FillNa(Column(df, "mapped_rent"), avg_rent)
        rent_yoy_final == FillNa(Column(df, "mapped_rent_yoy"), avg_rent_yoy)
        actual_yield ==
            [i \in DOMAIN df |->
                FMul(FDiv(FMul(rent_final[i], Num(12)), df[i].price), Num(100))]
        cagr_3y ==
            [i \in DOMAIN df |->
                IF IsNaN(df[i].cagr_3y) THEN df[i].yoy_growth ELSE df[i].cagr_3y]
        growth_combined ==
            [i \in DOMAIN df |->
                FAdd(FMul(cagr_3y[i], Rat(7, 10)),
                     FMul(df[i].yoy_growth, Rat(3, 10)))]
        z_growth == v3_zscore(growth_combined)
        z_yield == v3_zscore(actual_yield)
        z_rent_growth == v3_zscore(rent_yoy_final)
        z_income ==
            [i \in DOMAIN df |->
                ZWeighted(V3IncomeWeights, <<z_yield[i], z_rent_growth[i]>>)]
        z_price == v3_zscore(Column(df, "price"))
        z_affordability == [i \in DOMAIN df |-> ZNeg(z_price[i])]
        z_demographics == v3_zscore(Column(df, "pop_growth"))
        z_score_v3 ==
            [i \in DOMAIN df |->
                IF IsNaN(z_income[i]) \/ IsNaN(z_growth[i])
                   \/ IsNaN(z_affordability[i]) \/ IsNaN(z_demographics[i])
                THEN NaN
                ELSE <<ZTimes(V3Weights[1], z_growth[i]),
                       ZTimes(V3Weights[2], z_income[i][1]),
                       ZTimes(V3Weights[2], z_income[i][2]),
                       ZTimes(V3Weights[3], z_affordability[i]),
                       ZTimes(V3Weights[4], z_demographics[i])>>]
    IN  [i \in DOMAIN df |->
            [county |-> df[i].county,
             price |-> df[i].price,
             yoy_growth |-> df[i].yoy_growth,
             cagr_3y |-> cagr_3y[i],
             pop_growth |-> df[i].pop_growth,
             is_estimated_rent |-> IsNaN(df[i].mapped_rent),
             rent_final |-> rent_final[i],
             rent_yoy_final |-> rent_yoy_final[i],
             actual_yield |-> actual_yield[i],
             growth_combined |-> growth_combined[i],
             z_growth |-> z_growth[i],
             z_yield |-> z_yield[i],
             z_rent_growth |-> z_rent_growth[i],
             z_income |-> z_income[i],
             z_price |-> z_price[i],
             z_affordability |-> z_affordability[i],
             z_demographics |-> z_demographics[i],
             z_score_v3 |-> z_score_v3[i],
             score_v3_norm |-> ZDisplay(z_score_v3[i])]]

V3Score ==
    /\ pc = "snapshot"
    /\ \E t \in SortedDescending(v3_score(snapshot), "z_score_v3") :
          result' = [table |-> t, weights |-> <<V3Weights, V3IncomeWeights>>]
    /\ pc' = "v3_score"
    /\ UNCHANGED <<master, snapshot>>

-----------------------------------------------------------------------------
(* Scoring inputs: a metric table of 1..MaxCounties counties.              *)

MaxCounties == 3

CountyNames ==
    <<"Imperial County", "Kings County", "Yuba County", "Madera County",
      "Placer County">>

\* latest prices, in thousands of dollars
PriceValues == {300, 400, 750}

\* growth figures in percent; rent in thousands of dollars (NaN: no metro rent)
GrowthProfiles ==
    <<[yoy_growth |-> Num(0), cagr_3y |-> Num(0), pop_growth |-> Num(0),
       mapped_rent |-> NaN, mapped_rent_yoy |-> NaN],
      [yoy_growth |-> Num(4), cagr_3y |-> Num(3), pop_growth |-> Num(0),
       mapped_rent |-> Num(2), mapped_rent_yoy |-> Num(5)],
      [yoy_growth |-> Num(4), cagr_3y |-> Num(6), pop_growth |-> Num(2),
       mapped_rent |-> Num(3), mapped_rent_yoy |-> Num(5)]>>

\* Tables of 1..MaxCounties counties, each a price and a growth profile.  The
\* scores of a table do not depend on the order of its rows, so one order is
\* taken for each combination of rows.
Snapshots ==
    LET Choices == PriceValues \X DOMAIN GrowthProfiles
        key(c) == c[1] * 10 + c[2]
    IN  UNION {{t \in [1..n -> Choices] :
                    \A i \in 1..(n - 1) : key(t[i]) <= key(t[i + 1])} :
               n \in 1..MaxCounties}

MetricsTable(choice) ==
    [i \in DOMAIN choice |->
        LET g == GrowthProfiles[choice[i][2]]
        IN  [county |-> CountyNames[i],
             price |-> Num(choice[i][1]),
             yoy_growth |-> g.yoy_growth,
             cagr_3y |-> g.cagr_3y,
             pop_growth |-> g.pop_growth,
             mapped_rent |-> g.mapped_rent,
             mapped_rent_yoy |-> g.mapped_rent_yoy]]

NoTable == [table |-> << >>, weights |-> << >>]

InitScore ==
    /\ master = << >>
    /\ snapshot \in {MetricsTable(c) : c \in Snapshots}
    /\ result = NoTable
    /\ pc = "snapshot"

NextScore ==
    \/ CalculateScores
    \/ SaveResults
    \/ CalculateScoresZscore
    \/ ShowRankingDifferences
    \/ CreateFullRanking
    \/ IsmCalculateScores
    \/ SensitivityAnalysis
    \/ V3Score

SpecScore == InitScore /\ [][NextScore]_vars

-----------------------------------------------------------------------------
(* Dates.  The master tables carry one row per entity and month, dated at  *)
(* the last day of the month (the column headers of the Zillow files); a   *)
(* date is kept as its month index, month 0 being January 2000.            *)

MonthIndex(year, month) == (year - 2000) * 12 + (month - 1)

YearOf(m) == 2000 + (m \div 12)

MonthOfYear(m) == (m % 12) + 1

IsLeap(year) == year % 4 = 0 /\ (year % 100 # 0 \/ year % 400 = 0)

DaysInMonth(m) ==
    IF MonthOfYear(m) = 2 THEN (IF IsLeap(YearOf(m)) THEN 29 ELSE 28)
    ELSE IF MonthOfYear(m) \in {4, 6, 9, 11} THEN 30
    ELSE 31

\* the days from the last day of month first to the last day of month last
RECURSIVE DaysBetween(_, _)
DaysBetween(first, last) ==
    IF last <= first THEN 0
    ELSE DaysInMonth(last) + DaysBetween(first, last - 1)

\* pd.Timestamp of a row's date
Timestamp(m) == [m |-> m, d |-> DaysInMonth(m)]

\* ts - pd.DateOffset(months=k): the same day k months earlier, moved back to
\* the last day of that month when the month is shorter
MinusMonths(ts, k) ==
    [m |-> ts.m - k,
     d |-> IF ts.d < DaysInMonth(ts.m - k) THEN ts.d ELSE DaysInMonth(ts.m - k)]

DateLeq(a, b) == a.m < b.m \/ (a.m = b.m /\ a.d <= b.d)

\* df[df[col] == entity].sort_values('date'); the dates of an entity are
\* distinct
EntityRows(df, col, entity) ==
    LET rows == SelectSeq(df, LAMBDA r : r[col] = entity)
        rank == AsSeq([i \in DOMAIN rows |->
                    1 + Cardinality({j \in DOMAIN rows : rows[j].date < rows[i].date})])
    IN  AsSeq([k \in DOMAIN rows |-> rows[CHOOSE i \in DOMAIN rows : rank[i] = k]])

\* df[col].unique(): the entities in the order of their first row
Unique(df, col) ==
    LET E == {df[i][col] : i \in DOMAIN df}
        first(e) == CHOOSE i \in DOMAIN df :
                        /\ df[i][col] = e
                        /\ \A j \in 1..(i - 1) : df[j][col] # e
    IN  AsSeq([k \in 1..Cardinality(E) |->
            CHOOSE e \in E :
                Cardinality({f \in E : first(f) < first(e)}) = k - 1])

\* county_data[county_data['date'] <= county_data['date'].max() - offset]
AtOrBefore(county_data, months) ==
    LET max_date == Timestamp(county_data[Len(county_data)].date)
        cutoff == MinusMonths(max_date, months)
    IN  SelectSeq(county_data, LAMBDA r : DateLeq(Timestamp(r.date), cutoff))

\* A compound growth rate (ratio ** (1 / years) - 1) is kept as its ratio and
\* its number of years; it is null when the ratio is, and the literal 0 of a
\* zero-filled metric is the rate of the ratio 1.
Cagr(latest_price, start, years) ==
    [ratio |-> FDiv(latest_price, start), years |-> years]

CagrZero == [ratio |-> Num(1), years |-> Num(1)]

\* (last - first).days / 365.25
YearsBetween(first, last) ==
    Rat(DaysBetween(first, last) * 4, 1461)

\* population growth over the rows that carry a population
PopGrowth(county_data) ==
    LET pop_data == SelectSeq(county_data, LAMBDA r : ~IsNaN(r.population))
    IN  IF Len(pop_data) >= 2
        THEN FMul(FDiv(FSub(pop_data[Len(pop_data)].population,
                            pop_data[1].population),
                       pop_data[1].population), Num(100))
        ELSE Num(0)

-----------------------------------------------------------------------------
(* AllCountyScoringMethodology.load_all_county_data                        *)

\* the fewest rows of a county in the loops of full_county_ranking.py and
\* scoring_methodology.py
MinRankingMonths == 12

\* variant of MinMonths with the threshold of the ranking loops
MinMonthsOfRanking == MinRankingMonths

\* the fewest rows of a county that is processed
MinMonths == 36

\* the metrics of one county, or NaN for a county that is skipped
county_metrics(county, county_data) ==
    LET n == Len(county_data)
        max_date == county_data[n].date
        latest_price == county_data[n].zhvi
        year_ago == AtOrBefore(county_data, 12)
        three_years_ago == AtOrBefore(county_data, 36)
        yoy_growth ==
            IF year_ago # << >> /\ ~IsNaN(year_ago[Len(year_ago)].zhvi)
            THEN FMul(FDiv(FSub(latest_price, year_ago[Len(year_ago)].zhvi),
                           year_ago[Len(year_ago)].zhvi), Num(100))
            ELSE Num(0)
        cagr ==
            IF three_years_ago # << >> /\ ~IsNaN(three_years_ago[1].zhvi)
            THEN Cagr(latest_price, three_years_ago[1].zhvi,
                      YearsBetween(three_years_ago[1].date, max_date))
            ELSE CagrZero
    IN  IF n < MinMonths THEN NaN
        ELSE IF max_date < MonthIndex(2023, 1) THEN NaN
        ELSE IF IsNaN(latest_price) THEN NaN
        ELSE [county |-> county,
              price |-> latest_price,
              yoy_growth |-> yoy_growth,
              cagr_3y |-> cagr,
              pop_growth |-> PopGrowth(county_data),
              data_months |-> n,
              latest_date |-> max_date]

\* sorted(all_counties)
SortedNames(names) ==
    LET S == {names[k] : k \in DOMAIN names}
        ordered == SelectSeq(CountyNames, LAMBDA c : c \in S)
    IN  ordered

load_all_county_data(df) ==
    LET all_counties == SortedNames(Unique(df, "RegionName"))
        metrics == [k \in DOMAIN all_counties |->
                       county_metrics(all_counties[k],
                                      EntityRows(df, "RegionName", all_counties[k]))]
    IN  SelectSeq(metrics, LAMBDA r : ~IsNaN(r))

LoadAllCountyData ==
    /\ pc = "master"
    /\ snapshot' = load_all_county_data(master)
    /\ pc' = "load_all_county_data"
    /\ UNCHANGED <<master, result>>

-----------------------------------------------------------------------------
(* ZScoreCountyScoringMethodology.load_all_county_data: the same loop,     *)
(* statement for statement, as in scoring_all_counties.py                  *)

zscore_load_all_county_data(df) ==
    LET all_counties == SortedNames(Unique(df, "RegionName"))
        metrics == [k \in DOMAIN all_counties |->
                       county_metrics(all_counties[k],
                                      EntityRows(df, "RegionName", all_counties[k]))]
    IN  SelectSeq(metrics, LAMBDA r : ~IsNaN(r))

ZscoreLoadAllCountyData ==
    /\ pc = "master"
    /\ snapshot' = zscore_load_all_county_data(master)
    /\ pc' = "zscore_load_all_county_data"
    /\ UNCHANGED <<master, result>>

-----------------------------------------------------------------------------
(* ZScoreV3Scoring.load_county_data                                        *)

\* the statistics of one county, or NaN for a county that is skipped
v3_county_stats(county, c_data) ==
    LET n == Len(c_data)
        latest == c_data[n]
        three_years_ago == AtOrBefore(c_data, 36)
        cagr ==
            IF three_years_ago # << >>
            THEN Cagr(latest.zhvi, three_years_ago[1].zhvi, Num(3))
            ELSE CagrZero
        \* c_data.iloc[-13]
        back == c_data[n - 12]
    IN  IF n < 36 THEN NaN
        ELSE [county |-> county,
              price |-> latest.zhvi,
              cagr_3y |-> cagr,
              yoy_growth |->
                  IF n > 12
                  THEN FMul(FDiv(FSub(latest.zhvi, back.zhvi), back.zhvi), Num(100))
                  ELSE Num(0),
              pop_growth |-> PopGrowth(c_data)]

v3_load_county_data(df) ==
    LET counties == Unique(df, "RegionName")
        county_stats == [k \in DOMAIN counties |->
                            v3_county_stats(counties[k],
                                            EntityRows(df, "RegionName", counties[k]))]
    IN  SelectSeq(county_stats, LAMBDA r : ~IsNaN(r))

V3LoadCountyData ==
    /\ pc = "master"
    /\ snapshot' = v3_load_county_data(master)
    /\ pc' = "v3_load_county_data"
    /\ UNCHANGED <<master, result>>

-----------------------------------------------------------------------------
(* The metric loops of FullCountyRanking.our_methodology and of            *)
(* InvestmentScoringMethodology.load_county_data                           *)

\* the metrics of one county, or NaN for a county with fewer than 12 rows
ranking_metrics(county, county_data) ==
    LET n == Len(county_data)
        latest_price == county_data[n].zhvi
        year_ago == AtOrBefore(county_data, 12)
        three_years_ago == AtOrBefore(county_data, 36)
        yoy_growth ==
            IF year_ago # << >>
            THEN FMul(FDiv(FSub(latest_price, year_ago[Len(year_ago)].zhvi),
                           year_ago[Len(year_ago)].zhvi), Num(100))
            ELSE Num(0)
        cagr ==
            IF three_years_ago # << >>
            THEN Cagr(latest_price, three_years_ago[1].zhvi,
                      YearsBetween(three_years_ago[1].date, county_data[n].date))
            ELSE CagrZero
    IN  IF n < MinRankingMonths THEN NaN
        ELSE [county |-> county,
              price |-> latest_price,
              yoy_growth |-> yoy_growth,
              cagr_3y |-> cagr,
              pop_growth |-> PopGrowth(county_data)]

\* variant of DropNaZhvi that keeps every row
DropNaSkipped(df) == df

\* df.dropna(subset=['zhvi']) of create_full_ranking
DropNaZhvi(df) == SelectSeq(df, LAMBDA r : ~IsNaN(r.zhvi))

\* the metric loop of our_methodology
our_metrics(df) ==
    LET counties == Unique(df, "RegionName")
        metrics_list == [k \in DOMAIN counties |->
                            ranking_metrics(counties[k],
                                            EntityRows(df, "RegionName", counties[k]))]
    IN  SelectSeq(metrics_list, LAMBDA r : ~IsNaN(r))

OurMetrics ==
    /\ pc = "master"
    /\ snapshot' = our_metrics(DropNaZhvi(master))
    /\ pc' = "our_metrics"
    /\ UNCHANGED <<master, result>>

\* the loop over top_counties; a county without rows has fewer than 12
ism_load_county_data(df) ==
    LET top_counties == CountyNames
        metrics == [k \in DOMAIN top_counties |->
                       LET county_data == EntityRows(df, "RegionName", top_counties[k])
                       IN  IF county_data = << >> THEN NaN
                           ELSE ranking_metrics(top_counties[k], county_data)]
    IN  SelectSeq(metrics, LAMBDA r : ~IsNaN(r))

IsmLoadCountyData ==
    /\ pc = "master"
    /\ snapshot' = ism_load_county_data(master)
    /\ pc' = "ism_load_county_data"
    /\ UNCHANGED <<master, result>>

-----------------------------------------------------------------------------
(* FeatureEngineer.calculate_metrics (feature_engineer.py)                 *)

\* df.sort_values(['cbsa_code', 'date']); the rows of one key keep their
\* order
SortByCodeDate(df) ==
    LET before(a, b) ==
            a.cbsa_code < b.cbsa_code
            \/ (a.cbsa_code = b.cbsa_code /\ a.date < b.date)
        rank == AsSeq([i \in DOMAIN df |->
                    1 + Cardinality({j \in DOMAIN df :
                            \/ before(df[j], df[i])
                            \/ (j < i /\ ~before(df[i], df[j]))})])
    IN  AsSeq([k \in DOMAIN df |-> df[CHOOSE i \in DOMAIN df : rank[i] = k]])

\* Series.ffill() within one group
Ffill(v) ==
    AsSeq([i \in DOMAIN v |->
        LET known == {j \in 1..i : ~IsNaN(v[j])}
        IN  IF known = {} THEN NaN
            ELSE v[CHOOSE j \in known : \A l \in known : l <= j]])

\* SeriesGroupBy.pct_change(periods) on the values of one group: the value
\* over the value `periods` rows earlier, minus 1.  pandas before 3.0 first
\* fills nulls forward (fill_method='pad'), pandas 3.0 does not.
PctChange(v, periods, pad) ==
    LET filled == IF pad THEN Ffill(v) ELSE v
    IN  AsSeq([i \in DOMAIN v |->
            IF i - periods < 1 THEN NaN
            ELSE FSub(FDiv(filled[i], filled[i - periods]), Num(1))])

\* (pct_change(periods=36) + 1) ** (1/3) - 1, kept as its ratio and years
CagrOfChange(change) == [ratio |-> FAdd(change, Num(1)), years |-> Num(3)]

\* df.columns
Columns(df) == IF df = << >> THEN {} ELSE DOMAIN df[1]

\* the rows of one group of df.groupby('cbsa_code'), in the order of df
GroupRows(df, code) == SelectSeq(df, LAMBDA r : r.cbsa_code = code)

\* the columns of one row with the columns b added
WithColumns(present, b) == IF present THEN b ELSE << >>

\* the metric columns of the rows of one group, in the order of the group;
\* a block of metrics is computed only when its input column is there
group_metrics(g, pad) ==
    LET cols == Columns(g)
        has_zhvi == "zhvi" \in cols
        has_rent == "rent_index" \in cols
        has_inventory == "inventory" \in cols
        price_mom == IF has_zhvi THEN PctChange(Column(g, "zhvi"), 1, pad) ELSE << >>
        price_yoy == IF has_zhvi THEN PctChange(Column(g, "zhvi"), 12, pad) ELSE << >>
        price_3y == IF has_zhvi THEN PctChange(Column(g, "zhvi"), 36, pad) ELSE << >>
        rent_mom == IF has_rent THEN PctChange(Column(g, "rent_index"), 1, pad) ELSE << >>
        rent_yoy == IF has_rent THEN PctChange(Column(g, "rent_index"), 12, pad) ELSE << >>
        inventory_yoy ==
            IF has_inventory THEN PctChange(Column(g, "inventory"), 12, pad) ELSE << >>
    IN  AsSeq([k \in DOMAIN g |->
            WithColumns(has_rent /\ has_zhvi,
                [rental_yield |-> FDiv(FMul(g[k].rent_index, Num(12)), g[k].zhvi)])
            @@ WithColumns(has_zhvi,
                [price_mom |-> price_mom[k],
                 price_yoy |-> price_yoy[k],
                 price_3y_cagr |-> CagrOfChange(price_3y[k])])
            @@ WithColumns(has_rent,
                [rent_mom |-> rent_mom[k], rent_yoy |-> rent_yoy[k]])
            @@ WithColumns(has_inventory, [inventory_yoy |-> inventory_yoy[k]])
            @@ g[k]])

\* the rows of a group with the nulls of a column filled forward
FfillColumn(g, col) ==
    IF col \notin Columns(g) THEN g
    ELSE AsSeq([k \in DOMAIN g |-> [g[k] EXCEPT ![col] = Ffill(Column(g, col))[k]]])

\* a calculate_metrics that writes the filled prices and rents back into
\* their columns
calculate_metrics_in_place(df, pad) ==
    LET cols == Columns(df)
        sorted == IF "zhvi" \in cols \/ "rent_index" \in cols
                  THEN SortByCodeDate(df) ELSE df
        codes == Unique(sorted, "cbsa_code")
        groups == AsSeq([k \in DOMAIN codes |->
                      group_metrics(FfillColumn(FfillColumn(GroupRows(sorted, codes[k]),
                                                            "zhvi"), "rent_index"), pad)])
        group_of == AsSeq([i \in DOMAIN sorted |->
                      CHOOSE k \in DOMAIN codes : codes[k] = sorted[i].cbsa_code])
        place == AsSeq([i \in DOMAIN sorted |->
                      Cardinality({j \in 1..i : group_of[j] = group_of[i]})])
    IN  AsSeq([i \in DOMAIN sorted |-> groups[group_of[i]][place[i]]])

\* calculate_metrics: the table is sorted by metro and date only inside the
\* zhvi block and the rent_index block; the metrics of a row are those of its
\* place in its group, and the rows keep the order of the table
calculate_metrics(df, pad) ==
    LET cols == Columns(df)
        sorted == IF "zhvi" \in cols \/ "rent_index" \in cols
                  THEN SortByCodeDate(df) ELSE df
        codes == Unique(sorted, "cbsa_code")
        groups == AsSeq([k \in DOMAIN codes |->
                      group_metrics(GroupRows(sorted, codes[k]), pad)])
        group_of == AsSeq([i \in DOMAIN sorted |->
                      CHOOSE k \in DOMAIN codes : codes[k] = sorted[i].cbsa_code])
        place == AsSeq([i \in DOMAIN sorted |->
                      Cardinality({j \in 1..i : group_of[j] = group_of[i]})])
    IN  AsSeq([i \in DOMAIN sorted |-> groups[group_of[i]][place[i]]])

CalculateMetrics ==
    /\ pc = "metro_master"
    /\ \E pad \in BOOLEAN :
          result' = [table |-> calculate_metrics(master, pad), weights |-> << >>]
    /\ pc' = "calculate_metrics"
    /\ UNCHANGED <<master, snapshot>>

-----------------------------------------------------------------------------
(* County master tables: the rows of CountyNames[1], whose history is      *)
(* varied, followed by the complete histories of up to MaxOthers others.   *)

MaxOthers == 1

MaxExtraMonths == 2

\* the months a history covers
Spans == {11, 13, 35} \cup {36 + k : k \in 0..MaxExtraMonths}

\* the month of the last row
LastMonths == {MonthIndex(2022, 12), MonthIndex(2024, 6), MonthIndex(2025, 2)}

\* gap: the row six months before the last is absent; null: the row whose
\* price is null (first: the earliest row, as for a county that enters the
\* Zillow file late)
Histories ==
    [last : LastMonths, span : Spans, gap : BOOLEAN,
     null : {"none", "first", "last", "year_ago"}]

\* prices in thousands of dollars: 300 twelve months before the last row and
\* 309 at the last row
PriceAt(h, m) ==
    IF \/ h.null = "first" /\ m = h.last - h.span + 1
       \/ h.null = "last" /\ m = h.last
       \/ h.null = "year_ago" /\ m = h.last - 12
    THEN NaN
    ELSE Rat(1200 + 3 * (m - (h.last - 12)), 4)

\* the yearly population estimate merged onto every row of the year
PopulationAt(m) == Num(100 + (YearOf(m) - 2020))

RECURSIVE HistoryRows(_, _, _)
HistoryRows(county, h, m) ==
    IF m > h.last THEN << >>
    ELSE (IF h.gap /\ m = h.last - 6 THEN << >>
          ELSE <<[RegionName |-> county, date |-> m, zhvi |-> PriceAt(h, m),
                  population |-> PopulationAt(m)]>>)
         \o HistoryRows(county, h, m + 1)

\* another county: every month of the longest span up to June 2024, no
\* population
RECURSIVE OtherRows(_, _)
OtherRows(k, m) ==
    IF m > MonthIndex(2024, 6) THEN << >>
    ELSE <<[RegionName |-> CountyNames[k + 1], date |-> m,
            zhvi |-> Num(400 + 100 * k + (MonthIndex(2024, 6) - m)),
            population |-> NaN]>>
         \o OtherRows(k, m + 1)

RECURSIVE Others(_)
Others(n) ==
    IF n = 0 THEN << >>
    ELSE Others(n - 1)
         \o OtherRows(n, MonthIndex(2024, 6) - (36 + MaxExtraMonths) + 1)

CountyMaster(h, n) ==
    HistoryRows(CountyNames[1], h, h.last - h.span + 1) \o Others(n)

\* Metro master tables, sorted by metro and date as data_cleaner.py writes
\* them: the metro 31080, whose history is varied, then up to MaxOthers
\* complete histories.
RECURSIVE MetroRows(_, _)
MetroRows(h, m) ==
    IF m > h.last THEN << >>
    ELSE (IF h.gap /\ m = h.last - 6 THEN << >>
          ELSE <<[cbsa_code |-> 31080, date |-> m, zhvi |-> PriceAt(h, m),
                  rent_index |-> FDiv(PriceAt(h, m), Num(150)),
                  inventory |-> Num(500 + 4 * (h.last - m))]>>)
         \o MetroRows(h, m + 1)

RECURSIVE OtherMetroRows(_, _)
OtherMetroRows(k, m) ==
    IF m > MonthIndex(2024, 6) THEN << >>
    ELSE <<[cbsa_code |-> 40000 + k, date |-> m,
            zhvi |-> Num(400 + 100 * k + (MonthIndex(2024, 6) - m)),
            rent_index |-> Num(3),
            inventory |-> Num(900)]>>
         \o OtherMetroRows(k, m + 1)

RECURSIVE OtherMetros(_)
OtherMetros(n) ==
    IF n = 0 THEN << >>
    ELSE OtherMetros(n - 1)
         \o OtherMetroRows(n, MonthIndex(2024, 6) - (36 + MaxExtraMonths) + 1)

MetroMaster(h, n) == MetroRows(h, h.last - h.span + 1) \o OtherMetros(n)

InitSnapshot ==
    /\ \E h \in Histories : \E n \in 0..MaxOthers :
          \/ master = CountyMaster(h, n) /\ pc = "master"
          \/ master = MetroMaster(h, n) /\ pc = "metro_master"
    /\ snapshot = << >>
    /\ result = NoTable

NextSnapshot ==
    \/ LoadAllCountyData
    \/ ZscoreLoadAllCountyData
    \/ V3LoadCountyData
    \/ OurMetrics
    \/ IsmLoadCountyData
    \/ CalculateMetrics

SpecSnapshot == InitSnapshot /\ [][NextSnapshot]_vars

-----------------------------------------------------------------------------
(* The cleaners (data_cleaner.py, dark_pebble_cleaner.py and the county    *)
(* cleaners).  A date is the number 100 * month index + day of the month,  *)
(* so that dates order as numbers; a CBSA code is kept as its number (the  *)
(* codes are strings of five digits, which order as their numbers do).     *)

DateOf(m, d) == 100 * m + d

MonthStart(m) == DateOf(m, 1)

MonthEnd(m) == DateOf(m, DaysInMonth(m))

MonthOf(date) == date \div 100

DayOf(date) == date % 100

\* pd.to_datetime(...).dt.to_period('M').dt.to_timestamp()
ToMonthStart(date) == MonthStart(MonthOf(date))

\* the row r cut down to the columns cols
Restrict(r, cols) == [c \in cols |-> r[c]]

\* the columns cols, all null
NullColumns(cols) == [c \in cols |-> NaN]

\* the rows of right that agree with the row l on the key columns
Matches(l, right, on) == SelectSeq(right, LAMBDA r : \A c \in on : r[c] = l[c])

\* no two rows of the table agree on the columns `on`
UniqueOn(df, on) ==
    \A i, j \in DOMAIN df : (\A c \in on : df[i][c] = df[j][c]) => i = j

\* pd.merge(left, right, on=on, how='inner')
RECURSIVE MergeInnerFrom(_, _, _, _, _)
MergeInnerFrom(left, right, on, cols, i) ==
    IF i > Len(left) THEN << >>
    ELSE LET found == Matches(left[i], right, on)
         IN  AsSeq([k \in DOMAIN found |-> left[i] @@ Restrict(found[k], cols)])
             \o MergeInnerFrom(left, right, on, cols, i + 1)

MergeInner(left, right, on, cols) == MergeInnerFrom(left, right, on, cols, 1)

\* pd.merge(left, right, on=on, how='left') for a right table with the
\* columns on and cols: every left row in turn, once for every right row of
\* the same key, or once with nulls when there is none
RECURSIVE MergeLeftFrom(_, _, _, _, _)
MergeLeftFrom(left, right, on, cols, i) ==
    IF i > Len(left) THEN << >>
    ELSE LET found == Matches(left[i], right, on)
             joined == IF found = << >>
                       THEN <<left[i] @@ NullColumns(cols)>>
                       ELSE AsSeq([k \in DOMAIN found |->
                                left[i] @@ Restrict(found[k], cols)])
         IN  joined \o MergeLeftFrom(left, right, on, cols, i + 1)

\* the join that keeps only the left rows with a match
MergeLeftMatched(left, right, on, cols) == MergeInner(left, right, on, cols)

MergeLeft(left, right, on, cols) == MergeLeftFrom(left, right, on, cols, 1)

\* pd.merge(left, right, on=['cbsa_code', 'date'], how='outer'): the keys of
\* both tables in ascending order, every pair of rows of one key
RECURSIVE MergeOuterFrom(_, _, _, _, _)
MergeOuterFrom(left, right, lcols, rcols, keys) ==
    IF keys = << >> THEN << >>
    ELSE LET key == Head(keys)
             ls == Matches(key, left, {"cbsa_code", "date"})
             rs == Matches(key, right, {"cbsa_code", "date"})
             lrows == IF ls = << >> THEN <<key @@ NullColumns(lcols)>> ELSE ls
             pairs == AsSeq([n \in 1..(Len(lrows) * Len(rs)) |->
                          lrows[((n - 1) \div Len(rs)) + 1]
                              @@ Restrict(rs[((n - 1) % Len(rs)) + 1], rcols)])
         IN  (IF rs = << >>
              THEN AsSeq([k \in DOMAIN lrows |-> lrows[k] @@ NullColumns(rcols)])
              ELSE pairs)
             \o MergeOuterFrom(left, right, lcols, rcols, Tail(keys))

\* the distinct (cbsa_code, date) keys of a table, ascending
SortedKeys(df) ==
    LET K == {Restrict(df[i], {"cbsa_code", "date"}) : i \in DOMAIN df}
        before(a, b) ==
            a.cbsa_code < b.cbsa_code
            \/ (a.cbsa_code = b.cbsa_code /\ a.date < b.date)
    IN  AsSeq([n \in 1..Cardinality(K) |->
            CHOOSE k \in K : Cardinality({j \in K : before(j, k)}) = n - 1])

MergeOuter(left, right, lcols, rcols) ==
    MergeOuterFrom(left, right, lcols, rcols, SortedKeys(left \o right))

-----------------------------------------------------------------------------
(* DataCleaner (data_cleaner.py)                                           *)

\* metro_reference.csv, as housing_data_downloader.create_metro_reference
\* writes it: one row per metro of interest
metro_ref ==
    <<[cbsa_code |-> 31080, name |-> "Los Angeles-Long Beach-Anaheim, CA",
       category |-> "California Metros"],
      [cbsa_code |-> 12420, name |-> "Austin-Round Rock-Georgetown, TX",
       category |-> "Texas Metros"]>>

target_metros == {metro_ref[i].cbsa_code : i \in DOMAIN metro_ref}

\* the static lookup from Zillow's RegionName to the CBSA code
zillow_mapping ==
    [name \in {"Los Angeles, CA", "Chicago, IL", "Austin, TX"} |->
        CASE name = "Los Angeles, CA" -> 31080
          [] name = "Chicago, IL" -> 16980
          [] name = "Austin, TX" -> 12420]

\* the missing value in a column of codes
NoCode == 0

\* Series.map(zillow_mapping): a name that is no key of the lookup maps to
\* the missing value
\* a lookup that files an unknown name under the first target metro
MapRegionNameDefault(name) ==
    IF name \in DOMAIN zillow_mapping THEN zillow_mapping[name] ELSE 31080

MapRegionName(name) ==
    IF name \in DOMAIN zillow_mapping THEN zillow_mapping[name] ELSE NoCode

\* a file that does not exist
NoFile == [headers |-> << >>, rows |-> << >>, exists |-> FALSE]

\* df.pivot(index, columns, values): the cell of every index and column from
\* the one row that holds both, null where no row does; it raises when two
\* rows hold the same index and column
Pivot(df, index, columns, values) ==
    LET ids == {df[i][index] : i \in DOMAIN df}
        cols == {df[i][columns] : i \in DOMAIN df}
        at(id, c) == {i \in DOMAIN df : df[i][index] = id /\ df[i][columns] = c}
    IN  IF ~UniqueOn(df, {index, columns}) THEN [raised |-> TRUE, cells |-> << >>]
        ELSE [raised |-> FALSE,
              cells |-> [k \in ids \X cols |->
                            IF at(k[1], k[2]) = {} THEN NaN
                            ELSE df[CHOOSE i \in at(k[1], k[2]) : TRUE][values]]]

\* a melt that pairs the values of a row with the date columns in reverse
MeltReversed(file, metric) ==
    LET n == Len(file.rows)
    IN  AsSeq([k \in 1..(Len(file.headers) * n) |->
            LET c == ((k - 1) \div n) + 1
                r == ((k - 1) % n) + 1
            IN  [RegionName |-> file.rows[r].RegionName,
                 date |-> file.headers[c]]
                @@ (metric :> file.rows[r].values[Len(file.headers) + 1 - c])])

\* df.melt(id_vars, value_vars=date_cols, var_name='date', value_name=metric)
\* of a wide file: the date columns in turn, under each of them every row of
\* the file
Melt(file, metric) ==
    LET n == Len(file.rows)
    IN  AsSeq([k \in 1..(Len(file.headers) * n) |->
            LET c == ((k - 1) \div n) + 1
                r == ((k - 1) % n) + 1
            IN  [RegionName |-> file.rows[r].RegionName,
                 date |-> file.headers[c]]
                @@ (metric :> file.rows[r].values[c])])

\* the metrics of the Zillow files, in the order of the files dictionary
ZillowMetrics ==
    <<"zhvi", "rent_index", "inventory", "median_list_price", "sales_count",
      "days_on_market", "price_cuts">>

\* one file of load_and_standardize_zillow: the rows of the target metros,
\* in the long format; pd.to_datetime keeps the day of the column header
StandardizeZillowFile(file, metric) ==
    LET df_long == Melt(file, metric)
        mapped == AsSeq([i \in DOMAIN df_long |->
                      df_long[i] @@ [cbsa_code |-> MapRegionName(df_long[i].RegionName)]])
        df_filtered == SelectSeq(mapped, LAMBDA r : r.cbsa_code \in target_metros)
    IN  AsSeq([i \in DOMAIN df_filtered |->
            Restrict(df_filtered[i], {"cbsa_code", "date", metric})])

\* the loop of load_and_standardize_zillow from the k-th file on;
\* merged.none stands for merged_zillow being None
RECURSIVE ZillowLoop(_, _, _)
ZillowLoop(zillow_dir, k, merged) ==
    IF k > Len(ZillowMetrics) THEN merged
    ELSE LET metric == ZillowMetrics[k]
             file == zillow_dir[metric]
             df_filtered == StandardizeZillowFile(file, metric)
         IN  IF ~file.exists \/ df_filtered = << >>
             THEN ZillowLoop(zillow_dir, k + 1, merged)
             ELSE IF merged.none
             THEN ZillowLoop(zillow_dir, k + 1,
                      [none |-> FALSE, table |-> df_filtered, cols |-> {metric}])
             ELSE ZillowLoop(zillow_dir, k + 1,
                      [none |-> FALSE,
                       table |-> MergeOuter(merged.table, df_filtered,
                                            merged.cols, {metric}),
                       cols |-> merged.cols \cup {metric}])

\* the empty DataFrame stands for a missing table
load_and_standardize_zillow(zillow_dir) ==
    ZillowLoop(zillow_dir, 1, [none |-> TRUE, table |-> << >>, cols |-> {}]).table

\* datetime.now(): the middle of March 2024
Now == DateOf(MonthIndex(2024, 3), 15)

\* str(n) of a non-negative integer, as its sequence of decimal digits
RECURSIVE Str(_)
Str(n) == IF n < 10 THEN <<n>> ELSE Str(n \div 10) \o <<n % 10>>

\* str.zfill(width): zeros on the left up to the width, nothing cut
RECURSIVE Zfill(_, _)
Zfill(s, width) == IF Len(s) >= width THEN s ELSE Zfill(<<0>> \o s, width)

\* int(s) of a sequence of digits
RECURSIVE ToInt(_)
ToInt(s) ==
    IF s = << >> THEN 0 ELSE 10 * ToInt(SubSeq(s, 1, Len(s) - 1)) + s[Len(s)]

\* the county FIPS with the state code left as it is written
CountyFipsUnpadded(state, county) == Str(state) \o Zfill(Str(county), 3)

\* the five-digit county FIPS: the state code on two digits and the county
\* code on three
CountyFips(state, county) == Zfill(Str(state), 2) \o Zfill(Str(county), 3)

\* Series.interpolate(method='linear'): the rows count as equally spaced; a
\* null between two known values lies on the line through them, a null after
\* the last known value takes that value, a null before the first known value
\* stays
Interpolate(v) ==
    LET known == {j \in DOMAIN v : ~IsNaN(v[j])}
    IN  AsSeq([i \in DOMAIN v |->
            LET before == {j \in known : j <= i}
                after == {j \in known : j >= i}
                lo == CHOOSE j \in before : \A l \in before : l <= j
                hi == CHOOSE j \in after : \A l \in after : j <= l
            IN  IF before = {} THEN NaN
                ELSE IF after = {} \/ lo = hi THEN v[lo]
                ELSE FAdd(v[lo], FDiv(FMul(Num(i - lo), FSub(v[hi], v[lo])),
                                      Num(hi - lo)))])

\* Series.bfill()
Bfill(v) ==
    AsSeq([i \in DOMAIN v |->
        LET known == {j \in i..Len(v) : ~IsNaN(v[j])}
        IN  IF known = {} THEN NaN
            ELSE v[CHOOSE j \in known : \A l \in known : j <= l]])

\* the months first..last as a sequence
MonthRange(first, last) == AsSeq([k \in 1..(last - first + 1) |-> first + k - 1])

\* the value of the first row of the month m in a table of dated rows, the
\* missing value when there is none
ValueInMonth(rows, col, m) ==
    LET at == {i \in DOMAIN rows : MonthOf(rows[i].date) = m}
    IN  IF at = {} THEN NaN
        ELSE rows[CHOOSE i \in at : \A j \in at : i <= j][col]

\* the crosswalk with its codes as load_and_standardize_census builds them
CensusCrosswalk(crosswalk) ==
    AsSeq([i \in DOMAIN crosswalk.rows |->
        [cbsa_code |-> crosswalk.rows[i].cbsacode,
         county_fips |-> CountyFips(crosswalk.rows[i].fipsstatecode,
                                   crosswalk.rows[i].fipscountycode)]])

\* groupby('cbsa_code')[pop_cols].sum(): one row per code, ascending
SumByCbsa(pop_merged, years) ==
    LET codes == {pop_merged[i].cbsa_code : i \in DOMAIN pop_merged} \ {NoCode}
        sorted == AsSeq([n \in 1..Cardinality(codes) |->
                      CHOOSE c \in codes : Cardinality({d \in codes : d < c}) = n - 1])
        counties(c) == SelectSeq(pop_merged, LAMBDA r : r.cbsa_code = c)
    IN  AsSeq([n \in DOMAIN sorted |->
            [cbsa_code |-> sorted[n],
             estimates |-> AsSeq([y \in DOMAIN years |->
                 SSum(NonNaN(AsSeq([i \in DOMAIN counties(sorted[n]) |->
                     counties(sorted[n])[i].estimates[y]])))])]])

\* the annual estimates of one CBSA on the months first..last: each estimate
\* on the first of January of its year, the months between two estimates
\* interpolated, the months after the last estimate filled forward
MonthlyPopulation(row, years, first, last) ==
    LET annual == AsSeq([k \in DOMAIN years |->
                      [date |-> MonthStart(MonthIndex(years[k], 1)),
                       population |-> row.estimates[k]]])
        months == MonthRange(first, last)
        reindexed == AsSeq([k \in DOMAIN months |->
                         ValueInMonth(annual, "population", months[k])])
        filled == Ffill(Interpolate(reindexed))
    IN  AsSeq([k \in DOMAIN months |->
            [cbsa_code |-> row.cbsa_code,
             date |-> MonthStart(months[k]),
             population |-> filled[k]]])

RECURSIVE ConcatAll(_)
ConcatAll(tables) ==
    IF tables = << >> THEN << >> ELSE Head(tables) \o ConcatAll(Tail(tables))

load_and_standardize_census(census_dir, max_date) ==
    LET crosswalk == census_dir.crosswalk
        pop_file == census_dir.population
        all_counties == CensusCrosswalk(crosswalk)
        target_crosswalk == SelectSeq(all_counties,
                                LAMBDA r : r.cbsa_code \in target_metros)
        valid_county_fips == {target_crosswalk[i].county_fips :
                                 i \in DOMAIN target_crosswalk}
        raw_pop == AsSeq([i \in DOMAIN pop_file.rows |->
                       pop_file.rows[i]
                       @@ [county_fips |-> CountyFips(pop_file.rows[i].STATE_,
                                                     pop_file.rows[i].COUNTY)]])
        pop_filtered == SelectSeq(raw_pop,
                            LAMBDA r : r.county_fips \in valid_county_fips)
        pop_merged == MergeLeft(pop_filtered, target_crosswalk,
                                {"county_fips"}, {"cbsa_code"})
        cbsa_pop == SumByCbsa(pop_merged, pop_file.years)
        min_year == CHOOSE y \in {pop_file.years[k] : k \in DOMAIN pop_file.years} :
                        \A k \in DOMAIN pop_file.years : y <= pop_file.years[k]
    IN  IF ~crosswalk.exists \/ crosswalk.rows = << >> THEN << >>
        ELSE IF ~pop_file.exists THEN << >>
        ELSE IF cbsa_pop = << >> \/ pop_file.years = << >> THEN << >>
        ELSE ConcatAll(AsSeq([n \in DOMAIN cbsa_pop |->
                 MonthlyPopulation(cbsa_pop[n], pop_file.years,
                                   MonthIndex(min_year, 1), MonthOf(max_date))]))

\* raw_emp[series_col].str[5:10]: the area code of a series id such as
\* SMS06310800000000001, whose digits follow the three letters of the survey
SeriesArea(series_id) == ToInt(SubSeq(series_id.digits, 3, 7))

load_and_standardize_bls(emp_file) ==
    LET sms == SelectSeq(emp_file.rows, LAMBDA r : r.series_id.survey = "SMS")
        raw_emp == SelectSeq(sms, LAMBDA r : SeriesArea(r.series_id) \in target_metros)
    IN  IF ~emp_file.exists THEN << >>
        ELSE AsSeq([i \in DOMAIN raw_emp |->
                 [cbsa_code |-> SeriesArea(raw_emp[i].series_id),
                  date |-> MonthStart(MonthIndex(raw_emp[i].year,
                                                 ToInt(raw_emp[i].period.digits))),
                  employment |-> raw_emp[i].value]])

\* the FHFA ids of the metros that FHFA reports by metropolitan division
fhfa_map ==
    [cbsa \in {31080, 41860, 19100} |->
        CASE cbsa = 31080 -> 31084
          [] cbsa = 41860 -> 41884
          [] cbsa = 19100 -> 19124]

\* df.drop_duplicates(subset=['cbsa_code', 'date']): the first row of a key
DropDuplicates(df) ==
    LET first == {i \in DOMAIN df :
                     \A j \in 1..(i - 1) :
                         df[j].cbsa_code # df[i].cbsa_code \/ df[j].date # df[i].date}
    IN  AsSeq([k \in 1..Cardinality(first) |->
            df[CHOOSE i \in first : Cardinality({j \in first : j < i}) = k - 1]])

\* the last month of a quarter
QuarterEndMonth(period) == period * 3

\* (period * 3) - 2: the first month of a quarter
QuarterMonth(period) == (period * 3) - 2

\* subset.set_index('date').sort_index().resample('MS').interpolate(): the
\* months from the first observation to the last, the months without an
\* observation on the line between their neighbours
ResampleInterpolate(rows, col) ==
    LET dates == {rows[i].date : i \in DOMAIN rows}
        first == MonthOf(CHOOSE d \in dates : \A e \in dates : d <= e)
        last == MonthOf(CHOOSE d \in dates : \A e \in dates : e <= d)
        months == MonthRange(first, last)
        values == Interpolate(AsSeq([k \in DOMAIN months |->
                      ValueInMonth(rows, col, months[k])]))
    IN  IF rows = << >> THEN << >>
        ELSE AsSeq([k \in DOMAIN months |->
                 [date |-> MonthStart(months[k])] @@ (col :> values[k])])

load_and_standardize_fhfa(fhfa_file) ==
    LET df == SelectSeq(fhfa_file.rows,
                  LAMBDA r : /\ r.hpi_type = "traditional"
                             /\ r.hpi_flavor = "purchase-only"
                             /\ r.frequency \in {"monthly", "quarterly"})
        target_ids == {IF cbsa \in DOMAIN fhfa_map THEN fhfa_map[cbsa] ELSE cbsa :
                          cbsa \in target_metros}
        df_metro == SelectSeq(df, LAMBDA r : r.place_id \in target_ids)
        df_clean == DropDuplicates(AsSeq([i \in DOMAIN df_metro |->
                        [cbsa_code |-> df_metro[i].place_id,
                         date |-> MonthStart(MonthIndex(df_metro[i].yr,
                                     IF df_metro[i].frequency = "quarterly"
                                     THEN QuarterMonth(df_metro[i].period)
                                     ELSE df_metro[i].period)),
                         hpi |-> df_metro[i].index_sa]]))
        codes == Unique(df_clean, "cbsa_code")
    IN  IF ~fhfa_file.exists \/ df_metro = << >> THEN << >>
        ELSE ConcatAll(AsSeq([n \in DOMAIN codes |->
                 LET subset == SelectSeq(df_clean, LAMBDA r : r.cbsa_code = codes[n])
                     subset_monthly == ResampleInterpolate(subset, "hpi")
                 IN  AsSeq([k \in DOMAIN subset_monthly |->
                         subset_monthly[k] @@ [cbsa_code |-> codes[n]]])]))

\* df.set_index('date').resample('MS')['mortgage_rate'].mean(): the mean of
\* the weeks of every month from the first week to the last
load_and_standardize_freddie_mac(freddie_file) ==
    LET df == freddie_file.rows
        dates == {df[i].date : i \in DOMAIN df}
        first == MonthOf(CHOOSE d \in dates : \A e \in dates : d <= e)
        last == MonthOf(CHOOSE d \in dates : \A e \in dates : e <= d)
        months == MonthRange(first, last)
    IN  IF ~freddie_file.exists \/ df = << >> THEN << >>
        ELSE AsSeq([k \in DOMAIN months |->
                 [date |-> MonthStart(months[k]),
                  mortgage_rate |->
                      SMean(Column(SelectSeq(df,
                          LAMBDA r : MonthOf(r.date) = months[k]), "pmms30"))]])

merge_data(zillow, census, bls, fhfa, freddie) ==
    LET master0 == zillow
        master1 == IF census # << >>
                   THEN MergeLeft(master0, census, {"cbsa_code", "date"}, {"population"})
                   ELSE master0
        master2 == IF bls # << >>
                   THEN MergeLeft(master1, bls, {"cbsa_code", "date"}, {"employment"})
                   ELSE master1
        master3 == IF fhfa # << >>
                   THEN MergeLeft(master2, fhfa, {"cbsa_code", "date"}, {"hpi"})
                   ELSE master2
        master4 == IF freddie # << >>
                   THEN MergeLeft(master3, freddie, {"date"}, {"mortgage_rate"})
                   ELSE master3
        master5 == MergeLeft(master4, metro_ref, {"cbsa_code"}, {"name", "category"})
    IN  IF zillow = << >> THEN << >> ELSE SortByCodeDate(master5)

\* df.select_dtypes(include=[np.number]).columns: every column but the code,
\* the date and the two columns of the metro reference
NumericColumns(df) == Columns(df) \ {"cbsa_code", "date", "name", "category"}

\* x.interpolate(method='linear').ffill().bfill() on every numeric column of
\* the rows of one metro
FillGroup(g, numeric_cols) ==
    LET filled == [c \in numeric_cols |-> Bfill(Ffill(Interpolate(Column(g, c))))]
    IN  AsSeq([k \in DOMAIN g |-> [c \in numeric_cols |-> filled[c][k]] @@ g[k]])

\* the cleaning that also drops the rows in which a cell is still null after
\* the gaps are filled
CleanDropIncomplete(df, current_date) ==
    LET sorted == SortByCodeDate(df)
        numeric_cols == NumericColumns(sorted)
        codes == Unique(sorted, "cbsa_code")
        transformed == ConcatAll(AsSeq([n \in DOMAIN codes |->
                           FillGroup(GroupRows(sorted, codes[n]), numeric_cols)]))
    IN  IF df = << >> THEN df
        ELSE SelectSeq(transformed,
                       LAMBDA r : /\ r.date <= current_date
                                  /\ \A c \in numeric_cols : ~IsNaN(r[c]))

\* the cleaning with the rows after the current date dropped before the
\* gaps are filled
CleanFilterFirst(df, current_date) ==
    LET sorted == SelectSeq(SortByCodeDate(df), LAMBDA r : r.date <= current_date)
        numeric_cols == NumericColumns(sorted)
        codes == Unique(sorted, "cbsa_code")
    IN  IF df = << >> THEN df
        ELSE ConcatAll(AsSeq([n \in DOMAIN codes |->
                 FillGroup(GroupRows(sorted, codes[n]), numeric_cols)]))

\* the cleaning with the whole table filled as one group
CleanUngrouped(df, current_date) ==
    LET sorted == SortByCodeDate(df)
    IN  IF df = << >> THEN df
        ELSE SelectSeq(FillGroup(sorted, NumericColumns(sorted)),
                       LAMBDA r : r.date <= current_date)

clean_data(df, current_date) ==
    LET sorted == SortByCodeDate(df)
        numeric_cols == NumericColumns(sorted)
        codes == Unique(sorted, "cbsa_code")
        transformed == ConcatAll(AsSeq([n \in DOMAIN codes |->
                           FillGroup(GroupRows(sorted, codes[n]), numeric_cols)]))
    IN  IF df = << >> THEN df
        ELSE SelectSeq(transformed, LAMBDA r : r.date <= current_date)

\* a save that writes whatever table it is handed
SaveUnguarded(df) == [exists |-> TRUE, rows |-> df]

\* what save_data leaves at processed/master_housing_data.csv
save_data(df) ==
    IF df = << >> THEN [exists |-> FALSE, rows |-> << >>]
    ELSE [exists |-> TRUE, rows |-> df]

\* DataCleaner.run, a step for each call: the five loaders
LoadAndStandardize ==
    /\ pc = "raw"
    /\ snapshot' = [zillow |-> load_and_standardize_zillow(master.zillow),
                    census |-> load_and_standardize_census(master.census, Now),
                    bls |-> load_and_standardize_bls(master.bls),
                    fhfa |-> load_and_standardize_fhfa(master.fhfa),
                    freddie |-> load_and_standardize_freddie_mac(master.freddie)]
    /\ pc' = "standardized"
    /\ UNCHANGED <<master, result>>

MergeData ==
    /\ pc = "standardized"
    /\ result' = [table |-> merge_data(snapshot.zillow, snapshot.census,
                                       snapshot.bls, snapshot.fhfa,
                                       snapshot.freddie)]
    /\ pc' = "merge_data"
    /\ UNCHANGED <<master, snapshot>>

CleanData ==
    /\ pc = "merge_data"
    /\ result' = [table |-> clean_data(result.table, Now)]
    /\ pc' = "clean_data"
    /\ UNCHANGED <<master, snapshot>>

\* save_data, after which run returns; no step of run raises or catches
SaveData ==
    /\ pc = "clean_data"
    /\ result' = [table |-> result.table, file |-> save_data(result.table)]
    /\ pc' = "run_returned"
    /\ UNCHANGED <<master, snapshot>>

-----------------------------------------------------------------------------
(* create_dark_pebble_master (dark_pebble_cleaner.py) and the county        *)
(* cleaners (ca_county_cleaner.py, tx_county_cleaner.py)                    *)

\* the county file in the long format: the date columns in turn, under each
\* of them every county with its FIPS code
MeltCounties(file) ==
    LET n == Len(file.rows)
    IN  AsSeq([k \in 1..(Len(file.headers) * n) |->
            LET c == ((k - 1) \div n) + 1
                r == ((k - 1) % n) + 1
            IN  [fips |-> CountyFips(file.rows[r].StateCodeFIPS,
                                     file.rows[r].MunicipalCodeFIPS),
                 RegionName |-> file.rows[r].RegionName,
                 RegionType |-> file.rows[r].RegionType,
                 StateName |-> file.rows[r].StateName,
                 date |-> file.headers[c],
                 zhvi |-> file.rows[r].values[c]]])

\* df.sort_values(['fips', 'date']); the rows of one key keep their order
SortByFipsDate(df) ==
    LET before(a, b) ==
            ToInt(a.fips) < ToInt(b.fips)
            \/ (a.fips = b.fips /\ a.date < b.date)
        rank == AsSeq([i \in DOMAIN df |->
                    1 + Cardinality({j \in DOMAIN df :
                            \/ before(df[j], df[i])
                            \/ (j < i /\ ~before(df[i], df[j]))})])
    IN  AsSeq([k \in DOMAIN df |-> df[CHOOSE i \in DOMAIN df : rank[i] = k]])

\* the first month of the quarter of a period of the wage file
q_map ==
    [period \in {"Q01", "Q02", "Q03", "Q04"} |->
        CASE period = "Q01" -> 1
          [] period = "Q02" -> 4
          [] period = "Q03" -> 7
          [] period = "Q04" -> 10]

\* wages_long.pivot(...).resample('MS').interpolate(method='linear') melted
\* back: for every metro in the order of the codes, the months from the first
\* observation of the file to the last
WagesMonthly(wages_long) ==
    LET codes == {wages_long[i].cbsa_code : i \in DOMAIN wages_long}
        sorted == AsSeq([n \in 1..Cardinality(codes) |->
                      CHOOSE c \in codes : Cardinality({d \in codes : d < c}) = n - 1])
        dates == {wages_long[i].date : i \in DOMAIN wages_long}
        first == MonthOf(CHOOSE d \in dates : \A e \in dates : d <= e)
        last == MonthOf(CHOOSE d \in dates : \A e \in dates : e <= d)
        months == MonthRange(first, last)
        column(c) == Interpolate(AsSeq([k \in DOMAIN months |->
                         ValueInMonth(SelectSeq(wages_long, LAMBDA r : r.cbsa_code = c),
                                      "wage", months[k])]))
    IN  ConcatAll(AsSeq([n \in DOMAIN sorted |->
            AsSeq([k \in DOMAIN months |->
                [date |-> MonthStart(months[k]),
                 cbsa_code |-> sorted[n],
                 wage |-> column(sorted[n])[k]]])]))

\* master.set_index('fips').groupby(level=0).ffill(): every column of the
\* rows of one county filled forward
FfillGroup(g) ==
    LET cols == Columns(g) \ {"fips", "date", "cbsa_code"}
        filled == [c \in cols |-> Ffill(Column(g, c))]
    IN  AsSeq([k \in DOMAIN g |-> [c \in cols |-> filled[c][k]] @@ g[k]])

\* the metrics of the rows of one county, sorted by date
DarkPebbleMetrics(g, pad) ==
    LET appreciation_3y == PctChange(Column(g, "zhvi"), 36, pad)
        rent_growth_3y == PctChange(Column(g, "rent"), 36, pad)
        wage_growth_3y == PctChange(Column(g, "wage"), 36, pad)
        job_growth_3y == PctChange(Column(g, "employment"), 36, pad)
    IN  AsSeq([k \in DOMAIN g |->
            [price_to_rent |-> FDiv(g[k].zhvi, FMul(g[k].rent, Num(12))),
             appreciation_3y |-> appreciation_3y[k],
             rent_growth_3y |-> rent_growth_3y[k],
             wage_growth_3y |-> wage_growth_3y[k],
             job_growth_3y |-> job_growth_3y[k],
             rent_gap_proxy |-> FSub(appreciation_3y[k], rent_growth_3y[k])]
            @@ g[k]])

\* create_dark_pebble_master up to the table it saves, with the monthly wage
\* series it joins; read_csv raises when a file is missing, and pivot when
\* the wage file has two rows for a metro and quarter
create_dark_pebble_master(dir, pad) ==
    LET crosswalk == dir.census.crosswalk
        zori_df == dir.zillow["rent_index"]
        county_to_cbsa == AsSeq([i \in DOMAIN crosswalk.rows |->
                              [fips |-> CountyFips(crosswalk.rows[i].fipsstatecode,
                                                   crosswalk.rows[i].fipscountycode),
                               cbsa_code |-> crosswalk.rows[i].cbsacode]])
        melted == MeltCounties(dir.zhvi_county)
        zhvi_long == AsSeq([i \in DOMAIN melted |->
                         [fips |-> melted[i].fips,
                          date |-> ToMonthStart(melted[i].date),
                          zhvi |-> melted[i].zhvi]])
        zhvi_merged == MergeInner(zhvi_long, county_to_cbsa, {"fips"}, {"cbsa_code"})
        zori_melted == Melt(zori_df, "rent")
        zori_long == AsSeq([i \in DOMAIN zori_melted |->
                         [cbsa_code |-> MapRegionName(zori_melted[i].RegionName),
                          date |-> ToMonthStart(zori_melted[i].date),
                          rent |-> zori_melted[i].rent]])
        wages_long == AsSeq([i \in DOMAIN dir.wages.rows |->
                          [cbsa_code |-> dir.wages.rows[i].metro_code,
                           date |-> MonthStart(MonthIndex(dir.wages.rows[i].year,
                                                          q_map[dir.wages.rows[i].period])),
                           wage |-> dir.wages.rows[i].value]])
        wages_monthly == WagesMonthly(wages_long)
        emp_long == AsSeq([i \in DOMAIN dir.bls.rows |->
                        [cbsa_code |-> dir.bls.rows[i].metro_code,
                         date |-> MonthStart(MonthIndex(dir.bls.rows[i].year,
                                                        ToInt(dir.bls.rows[i].period.digits))),
                         employment |-> dir.bls.rows[i].value]])
        master1 == MergeLeft(zhvi_merged, zori_long, {"cbsa_code", "date"}, {"rent"})
        master2 == MergeLeft(master1, wages_monthly, {"cbsa_code", "date"}, {"wage"})
        master3 == MergeLeft(master2, emp_long, {"cbsa_code", "date"}, {"employment"})
        sorted == SortByFipsDate(master3)
        counties == Unique(sorted, "fips")
        saved == ConcatAll(AsSeq([n \in DOMAIN counties |->
                     FfillGroup(DarkPebbleMetrics(
                         SelectSeq(sorted, LAMBDA r : r.fips = counties[n]), pad))]))
    IN  IF \/ ~crosswalk.exists \/ ~dir.zhvi_county.exists \/ ~zori_df.exists
           \/ ~dir.wages.exists \/ ~dir.bls.exists
           \/ ~UniqueOn(wages_long, {"cbsa_code", "date"})
        THEN [raised |-> TRUE, table |-> << >>, wages_monthly |-> << >>]
        ELSE [raised |-> FALSE, table |-> saved, wages_monthly |-> wages_monthly]

\* master.sort_values('date').groupby('fips').tail(1): for every county one
\* of its rows of the latest date (the sort does not order rows of one date)
LatestRows(table) ==
    LET latest == {r \in RowsOf(table) :
                      \A i \in DOMAIN table :
                          table[i].fips = r.fips => table[i].date <= r.date}
        counties == {r.fips : r \in latest}
    IN  {{pick[f] : f \in counties} :
            pick \in {p \in [counties -> latest] : \A f \in counties : p[f].fips = f}}

CreateDarkPebbleMaster ==
    /\ pc = "raw"
    /\ \E pad \in BOOLEAN :
          LET out == create_dark_pebble_master(master, pad)
          IN  \E rows \in LatestRows(out.table) :
                  result' = [snapshot |-> rows] @@ out
    /\ pc' = "dark_pebble"
    /\ UNCHANGED <<master, snapshot>>

\* create_ca_county_master and create_tx_county_master, which differ in the
\* state only; the population of a row is the estimate of the year of its date
create_county_master(dir, state, stname) ==
    LET zhvi == [dir.zhvi_county EXCEPT
                    !.rows = SelectSeq(@, LAMBDA r : r.StateName = state)]
        st_long == MeltCounties(zhvi)
        st_pop == SelectSeq(dir.census.population.rows, LAMBDA r : r.STNAME = stname)
        years == dir.census.population.years
        pop_long == AsSeq([k \in 1..(Len(years) * Len(st_pop)) |->
                        LET y == ((k - 1) \div Len(st_pop)) + 1
                            r == ((k - 1) % Len(st_pop)) + 1
                        IN  [fips |-> CountyFips(st_pop[r].STATE_, st_pop[r].COUNTY),
                             year |-> years[y],
                             population |-> st_pop[r].estimates[y]]])
        with_year == AsSeq([i \in DOMAIN st_long |->
                         st_long[i] @@ [year |-> YearOf(MonthOf(st_long[i].date))]])
        merged == MergeLeft(with_year, pop_long, {"fips", "year"}, {"population"})
        master0 == AsSeq([i \in DOMAIN merged |->
                       Restrict(merged[i], {"fips", "RegionName", "RegionType",
                                            "StateName", "date", "zhvi", "population"})])
    IN  IF ~dir.zhvi_county.exists \/ ~dir.census.population.exists
        THEN [written |-> FALSE, table |-> << >>]
        ELSE [written |-> TRUE, table |-> SortByFipsDate(master0)]

CreateCountyMaster ==
    /\ pc = "raw"
    /\ \E st \in {<<"CA", "California">>, <<"TX", "Texas">>} :
          result' = create_county_master(master, st[1], st[2])
    /\ pc' = "county_master"
    /\ UNCHANGED <<master, snapshot>>

-----------------------------------------------------------------------------
(* The files of the data directory.  The Zillow files carry one column per *)
(* month, MaxMonths of them from October 2023 on; the header of a column   *)
(* is the last day of its month, in Zillow's own files, or its first day.  *)

MaxMonths == 6

FirstMonth == MonthIndex(2023, 10)

Headers(fmt) ==
    AsSeq([k \in 1..MaxMonths |->
        IF fmt = "month_end" THEN MonthEnd(FirstMonth + k - 1)
        ELSE MonthStart(FirstMonth + k - 1)])

\* the regions of a Zillow metro file: two target metros, a metro of the
\* lookup that is no target, and a region the lookup does not know
RegionsOf(shape) ==
    CASE shape = "all" -> <<"Los Angeles, CA", "Chicago, IL", "Austin, TX", "Bozeman, MT">>
      [] shape = "one" -> <<"Los Angeles, CA">>
      [] shape = "unmapped" -> <<"Bozeman, MT">>
      [] OTHER -> << >>

RegionLevel(name) ==
    CASE name = "Los Angeles, CA" -> 800
      [] name = "Chicago, IL" -> 300
      [] name = "Austin, TX" -> 400
      [] OTHER -> 500

\* the k-th monthly value of a region; home values in thousands of dollars
ZillowValue(metric, name, k) ==
    CASE metric = "zhvi" -> Num(RegionLevel(name) + 3 * k * k)
      [] metric = "rent_index" -> Rat(RegionLevel(name) + 2 * k, 200)
      [] OTHER -> Num(10 * RegionLevel(name) - 7 * k)

IsNullMonth(null, k) ==
    \/ null = "first" /\ k = 1
    \/ null = "middle" /\ k \in {3, 4}
    \/ null = "last" /\ k = MaxMonths

ZillowFile(metric, shape, fmt, null) ==
    IF shape = "absent" THEN NoFile
    ELSE [exists |-> TRUE,
          headers |-> Headers(fmt),
          rows |-> AsSeq([r \in DOMAIN RegionsOf(shape) |->
              [RegionName |-> RegionsOf(shape)[r],
               values |-> AsSeq([k \in 1..MaxMonths |->
                   IF IsNullMonth(null, k) THEN NaN
                   ELSE ZillowValue(metric, RegionsOf(shape)[r], k)])]])]

ZillowDir(sc) ==
    [metric \in {ZillowMetrics[k] : k \in DOMAIN ZillowMetrics} |->
        CASE metric = "zhvi" -> ZillowFile(metric, sc.zhvi, sc.fmt, sc.null)
          [] metric = "rent_index" -> ZillowFile(metric, sc.zori, sc.fmt, "none")
          [] metric = "inventory" -> ZillowFile(metric, sc.inventory, sc.fmt, "none")
          [] OTHER -> NoFile]

\* census/cbsa_to_county.csv: counties of the two target metros and of a
\* third metro; `double` lists Williamson County under a second CBSA
Crosswalk(double) ==
    [exists |-> TRUE,
     rows |-> <<[cbsacode |-> 31080, fipsstatecode |-> 6, fipscountycode |-> 37],
                [cbsacode |-> 31080, fipsstatecode |-> 6, fipscountycode |-> 59],
                [cbsacode |-> 12420, fipsstatecode |-> 48, fipscountycode |-> 453],
                [cbsacode |-> 12420, fipsstatecode |-> 48, fipscountycode |-> 491],
                [cbsacode |-> 16980, fipsstatecode |-> 17, fipscountycode |-> 31]>>
              \o (IF double
                  THEN <<[cbsacode |-> 31080, fipsstatecode |-> 48, fipscountycode |-> 491]>>
                  ELSE << >>)]

\* census/population_estimates.csv: POPESTIMATE2023 and POPESTIMATE2024, in
\* thousands
PopulationFile ==
    [exists |-> TRUE,
     years |-> <<2023, 2024>>,
     rows |-> <<[STNAME |-> "California", STATE_ |-> 6, COUNTY |-> 37,
                 estimates |-> <<Num(9720), Num(9660)>>],
                [STNAME |-> "California", STATE_ |-> 6, COUNTY |-> 59,
                 estimates |-> <<Num(3150), Num(3138)>>],
                [STNAME |-> "Texas", STATE_ |-> 48, COUNTY |-> 453,
                 estimates |-> <<Num(1320), Num(1344)>>],
                [STNAME |-> "Texas", STATE_ |-> 48, COUNTY |-> 491,
                 estimates |-> <<Num(680), Num(716)>>],
                [STNAME |-> "Illinois", STATE_ |-> 17, COUNTY |-> 31,
                 estimates |-> <<Num(5100), Num(5070)>>]>>]

CensusDir(census) ==
    [crosswalk |-> IF census = "absent" THEN NoFile ELSE Crosswalk(census = "double"),
     population |-> IF census = "absent" THEN NoFile ELSE PopulationFile]

\* a series id: the survey, then state (2), area (5), industry (8) and data
\* type (2)
SeriesId(survey, state, area, industry) ==
    [survey |-> survey,
     digits |-> Zfill(Str(state), 2) \o Zfill(Str(area), 5)
                \o Zfill(Str(industry), 8) \o <<0, 1>>]

\* the rows of one series over the first four months of the Zillow files
\* (employment is published later than prices)
EmploymentRows(series_id, area, level) ==
    AsSeq([k \in 1..4 |->
        [series_id |-> series_id,
         metro_code |-> area,
         year |-> YearOf(FirstMonth + k - 1),
         period |-> [letter |-> "M",
                     digits |-> Zfill(Str(MonthOfYear(FirstMonth + k - 1)), 2)],
         value |-> Num(level + 5 * k)]])

\* bls/metro_employment.csv: total nonfarm employment of the two target
\* metros; `two` adds a second series of Los Angeles
EmploymentFile(bls) ==
    IF bls = "absent" THEN NoFile
    ELSE [exists |-> TRUE,
          rows |-> EmploymentRows(SeriesId("SMS", 6, 31080, 0), 31080, 4500)
                   \o EmploymentRows(SeriesId("SMS", 48, 12420, 0), 12420, 1300)
                   \o (IF bls = "two"
                       THEN EmploymentRows(SeriesId("SMS", 6, 31080, 5000000), 31080, 600)
                       ELSE << >>)]

FhfaRow(type, place_id, yr, period, index) ==
    [hpi_type |-> type, hpi_flavor |-> "purchase-only", frequency |-> "quarterly",
     place_id |-> place_id, yr |-> yr, period |-> period, index_sa |-> index]

\* other/fhfa_hpi_metro.csv: the last quarter of 2023 and the first of 2024
\* for Austin, for the Los Angeles metropolitan division and for Chicago
FhfaFile(fhfa) ==
    IF fhfa = "absent" THEN NoFile
    ELSE [exists |-> TRUE,
          rows |-> <<FhfaRow("non-metro", 12420, 2023, 4, Num(111)),
                     FhfaRow("traditional", 12420, 2024, 1, Num(1030)),
                     FhfaRow("traditional", 12420, 2023, 4, Num(1000)),
                     FhfaRow("traditional", 31084, 2023, 4, Num(400)),
                     FhfaRow("traditional", 31084, 2024, 1, Num(406)),
                     FhfaRow("traditional", 16980, 2023, 4, Num(250)),
                     FhfaRow("traditional", 16980, 2024, 1, Num(251))>>]

\* other/freddie_mac_rates.csv: two weeks of every month of the Zillow files
FreddieFile(freddie) ==
    IF freddie = "absent" THEN NoFile
    ELSE [exists |-> TRUE,
          rows |-> AsSeq([k \in 1..(2 * MaxMonths) |->
              [date |-> DateOf(FirstMonth + ((k - 1) \div 2), 7 + 14 * ((k - 1) % 2)),
               pmms30 |-> Rat(700 + 3 * k, 100)]])]

\* zillow/zhvi_county.csv: Los Angeles County, Travis County and Williamson
\* County, the first of them last
CountyFile(fmt, null) ==
    LET counties ==
            <<[StateName |-> "TX", StateCodeFIPS |-> 48, MunicipalCodeFIPS |-> 453,
               RegionName |-> "Travis County", level |-> 450],
              [StateName |-> "TX", StateCodeFIPS |-> 48, MunicipalCodeFIPS |-> 491,
               RegionName |-> "Williamson County", level |-> 420],
              [StateName |-> "CA", StateCodeFIPS |-> 6, MunicipalCodeFIPS |-> 37,
               RegionName |-> "Los Angeles County", level |-> 850]>>
    IN  [exists |-> TRUE,
         headers |-> Headers(fmt),
         rows |-> AsSeq([r \in DOMAIN counties |->
             [StateName |-> counties[r].StateName,
              StateCodeFIPS |-> counties[r].StateCodeFIPS,
              MunicipalCodeFIPS |-> counties[r].MunicipalCodeFIPS,
              RegionName |-> counties[r].RegionName,
              RegionType |-> "county",
              values |-> AsSeq([k \in 1..MaxMonths |->
                  IF IsNullMonth(null, k) THEN NaN
                  ELSE Num(counties[r].level + 3 * k * k)])]])]

\* bls/metro_wages.csv: the average weekly wage of the last quarter of 2023
\* and the first of 2024 for Los Angeles; for Austin also of the quarter
\* before
WagesFile ==
    [exists |-> TRUE,
     rows |-> <<[metro_code |-> 31080, year |-> 2023, period |-> "Q04", value |-> Num(1000)],
                [metro_code |-> 31080, year |-> 2024, period |-> "Q01", value |-> Num(1030)],
                [metro_code |-> 12420, year |-> 2023, period |-> "Q03", value |-> Num(880)],
                [metro_code |-> 12420, year |-> 2023, period |-> "Q04", value |-> Num(900)],
                [metro_code |-> 12420, year |-> 2024, period |-> "Q01", value |-> Num(960)]>>]

DataDir(sc) ==
    [zillow |-> ZillowDir(sc),
     zhvi_county |-> CountyFile(sc.fmt, sc.null),
     census |-> CensusDir(sc.census),
     bls |-> EmploymentFile(sc.bls),
     wages |-> WagesFile,
     fhfa |-> FhfaFile(sc.fhfa),
     freddie |-> FreddieFile(sc.freddie)]

\* the states of the directory: every choice of the Zillow files with all the
\* other sources in place, and every choice of the other sources with
\* complete Zillow files, the rent file apart
AllDirectories ==
    [fmt : {"month_end", "month_start"},
     zhvi : {"absent", "unmapped", "one", "all"},
     zori : {"absent", "unmapped", "one", "all"},
     inventory : {"absent", "all"},
     null : {"none", "first", "middle", "last"},
     census : {"absent", "present", "double"},
     bls : {"absent", "one", "two"},
     fhfa : {"absent", "present"},
     freddie : {"absent", "present"}]

Directories ==
    {sc \in AllDirectories :
        \/ /\ sc.census = "present" /\ sc.bls = "one"
           /\ sc.fhfa = "present" /\ sc.freddie = "present"
           /\ (sc.inventory = "all" => sc.zhvi = "all" /\ sc.zori = "all" /\ sc.null = "none")
        \/ /\ sc.zhvi = "all" /\ sc.zori \in {"absent", "all"}
           /\ sc.inventory = "absent" /\ sc.null = "none"}

\* the rows of a table in another order
Reorder(df, order) ==
    CASE order = "reversed" -> AsSeq([i \in DOMAIN df |-> df[Len(df) + 1 - i]])
      [] order = "rotated" -> Tail(df) \o <<Head(df)>>
      [] OTHER -> df

-----------------------------------------------------------------------------
(* ZScoreV3Scoring.run from the files on: processed/ca_county_master.csv,  *)
(* zillow/zori_metro.csv and census/cbsa_to_county.csv.                    *)

\* the months of the rent file of the V3 run, up to June 2024
ZoriMonths == 14

\* zillow/zori_metro.csv as the V3 run reads it, the rents in thousands of
\* dollars as the prices are: Hanford with a full history,
\* Madera without a latest rent, and Bozeman, which the lookup does not hold
\* and whose history starts late
V3ZoriFile(zori) ==
    IF zori = "absent" THEN NoFile
    ELSE LET regions == IF zori = "hanford" THEN <<"Hanford, CA">>
                        ELSE <<"Bozeman, MT", "Hanford, CA", "Madera, CA">>
             base(name) == IF name = "Hanford, CA" THEN 1500
                           ELSE IF name = "Madera, CA" THEN 1800 ELSE 2100
             null(name, k) == \/ name = "Madera, CA" /\ k = ZoriMonths
                              \/ name = "Bozeman, MT" /\ k < 6
         IN  [exists |-> TRUE,
              headers |-> AsSeq([k \in 1..ZoriMonths |->
                              MonthIndex(2024, 6) - ZoriMonths + k]),
              rows |-> AsSeq([r \in DOMAIN regions |->
                  [RegionName |-> regions[r],
                   values |-> AsSeq([k \in 1..ZoriMonths |->
                       IF null(regions[r], k) THEN NaN
                       ELSE Rat(base(regions[r]) + 10 * k, 1000)])]])]

\* census/cbsa_to_county.csv as the V3 run reads it; `partial` lacks
\* Imperial County
V3CrosswalkFile(crosswalk) ==
    IF crosswalk = "absent" THEN NoFile
    ELSE [exists |-> TRUE,
          rows |-> (IF crosswalk = "partial" THEN << >>
                    ELSE <<[countycountyequivalent |-> "Imperial County",
                            cbsacode |-> 20940, fipsstatecode |-> 6]>>)
                   \o <<[countycountyequivalent |-> "Kings County",
                           cbsacode |-> 25260, fipsstatecode |-> 6],
                          [countycountyequivalent |-> "Kings County",
                           cbsacode |-> 23420, fipsstatecode |-> 6],
                          [countycountyequivalent |-> "Yuba County",
                           cbsacode |-> 49700, fipsstatecode |-> 6],
                          [countycountyequivalent |-> "Travis County",
                           cbsacode |-> 12420, fipsstatecode |-> 48]>>]

\* load_crosswalk: the rows of California; `found` is false for the None it
\* returns when the file is absent
load_crosswalk(file) ==
    [found |-> file.exists,
     rows |-> SelectSeq(file.rows,
                        LAMBDA r : Zfill(Str(r.fipsstatecode), 2) = <<0, 6>>)]

\* the metrics of one metro, or NaN for a metro without a latest rent
zori_metrics(metro, metro_data) ==
    LET latest_rent == metro_data[Len(metro_data)].rent_index
        year_ago == AtOrBefore(metro_data, 12)
        base == year_ago[Len(year_ago)].rent_index
    IN  IF IsNaN(latest_rent) THEN NaN
        ELSE [metro_name |-> metro,
              latest_rent |-> latest_rent,
              rent_yoy |-> IF year_ago # << >> /\ ~IsNaN(base)
                           THEN FMul(FDiv(FSub(latest_rent, base), base), Num(100))
                           ELSE Num(0)]

\* load_zori_data of a file that exists
load_zori_data(file) ==
    LET df_long == Melt(file, "rent_index")
        metros == Unique(df_long, "RegionName")
        metro_metrics == [k \in DOMAIN metros |->
                             zori_metrics(metros[k],
                                          EntityRows(df_long, "RegionName", metros[k]))]
    IN  SelectSeq(metro_metrics, LAMBDA r : ~IsNaN(r))

\* the entries of the lookup of map_rent_to_county for the metros of the
\* modelled files
v3_zillow_mapping ==
    [name \in {"El Centro, CA", "Hanford, CA", "Madera, CA", "Yuba City, CA"} |->
        CASE name = "El Centro, CA" -> 20940
          [] name = "Hanford, CA" -> 25260
          [] name = "Madera, CA" -> 31460
          [] OTHER -> 49700]

\* the first row of the table whose column holds the key, or NaN
FirstWith(df, col, key) ==
    LET found == {i \in DOMAIN df : df[i][col] = key}
    IN  IF found = {} THEN NaN
        ELSE df[CHOOSE i \in found : \A j \in found : i <= j]

\* map_rent_to_county: the CBSA code of the county from the first crosswalk
\* row of its name, the rent from the first metro of that code.  A county the
\* crosswalk does not hold and a metro the lookup does not hold both have a
\* null code, and pd.merge matches null keys with each other.
map_rent_to_county(county_df, rent_df, crosswalk) ==
    LET rent_coded == AsSeq([i \in DOMAIN rent_df |->
                          rent_df[i] @@
                          [cbsa_code |->
                              IF rent_df[i].metro_name \in DOMAIN v3_zillow_mapping
                              THEN v3_zillow_mapping[rent_df[i].metro_name]
                              ELSE NoCode]])
        code(county) ==
            LET row == FirstWith(crosswalk.rows, "countycountyequivalent", county)
            IN  IF IsNaN(row) THEN NoCode ELSE row.cbsacode
        rent(county) == FirstWith(rent_coded, "cbsa_code", code(county))
    IN  AsSeq([i \in DOMAIN county_df |->
            county_df[i] @@
            [cbsa_code |-> code(county_df[i].county),
             mapped_rent |-> IF IsNaN(rent(county_df[i].county)) THEN NaN
                             ELSE rent(county_df[i].county).latest_rent,
             mapped_rent_yoy |-> IF IsNaN(rent(county_df[i].county)) THEN NaN
                                 ELSE rent(county_df[i].county).rent_yoy]])

\* the largest r in lo..hi with (r / 1000) ** 3 <= q
RECURSIVE CubeRootBetween(_, _, _)
CubeRootBetween(lo, hi, q) ==
    IF lo >= hi THEN lo
    ELSE LET mid == (lo + hi + 1) \div 2
         IN  IF RatLess(q[1], q[2], mid * mid * mid, 1000 * 1000 * 1000)
             THEN CubeRootBetween(lo, mid - 1, q)
             ELSE CubeRootBetween(mid, hi, q)

\* ((ratio ** (1 / years)) - 1) * 100 as a number: the cube root to three
\* decimals, for ratios below 2
CagrPercent(cagr) ==
    IF IsNaN(cagr.ratio) THEN NaN
    ELSE IF cagr.years = Num(1) THEN FMul(FSub(cagr.ratio, Num(1)), Num(100))
    ELSE Rat(CubeRootBetween(0, 1259, cagr.ratio) - 1000, 10)

\* run: the stage it reaches, the exception it ends with, and the tables it
\* may display (the final sort leaves the order of ties open)
v3_run(county_file, zori_file, crosswalk_file) ==
    LET county_stats == v3_load_county_data(county_file)
        county_df == AsSeq([i \in DOMAIN county_stats |->
                         [county_stats[i] EXCEPT !.cagr_3y = CagrPercent(@)]])
        rent_df == load_zori_data(zori_file)
        crosswalk == load_crosswalk(crosswalk_file)
        ended(stage, raised) ==
            [stage |-> stage, raised |-> raised,
             crosswalk_found |-> crosswalk.found, tables |-> {<< >>}]
    IN  IF ~zori_file.exists THEN ended("failed_to_load", "none")
        ELSE IF rent_df = << >> THEN ended("map_rent_to_county", "KeyError")
        ELSE IF ~crosswalk.found THEN ended("map_rent_to_county", "TypeError")
        ELSE IF county_df = << >> THEN ended("map_rent_to_county", "KeyError")
        ELSE [stage |-> "displayed", raised |-> "none",
              crosswalk_found |-> TRUE,
              tables |-> SortedDescending(
                             v3_score(map_rent_to_county(county_df, rent_df, crosswalk)),
                             "z_score_v3")]

V3Run ==
    /\ pc = "ca_county_master"
    /\ \E zori \in {"absent", "hanford", "all"} :
       \E crosswalk \in {"absent", "present", "partial"} :
       \E out \in {v3_run(master, V3ZoriFile(zori), V3CrosswalkFile(crosswalk))} :
       \E t \in out.tables :
          result' = [table |-> t, stage |-> out.stage, raised |-> out.raised,
                     crosswalk_found |-> out.crosswalk_found]
    /\ pc' = "v3_run"
    /\ UNCHANGED <<master, snapshot>>

\* the histories of Imperial County in the file read by the V3 run: long
\* enough to be scored and too short
V3Histories ==
    {h \in Histories : /\ h.last = MonthIndex(2024, 6)
                       /\ h.span \in {35, 36}
                       /\ ~h.gap
                       /\ h.null \in {"none", "last"}}

\* processed/ca_county_master.csv: Imperial County alone or with Kings County
V3CountyFiles ==
    {HistoryRows(CountyNames[1], h, h.last - h.span + 1) \o others :
        h \in V3Histories,
        others \in {<< >>, OtherRows(1, MonthIndex(2024, 6) - 38 + 1)}}

\* the master files calculate_metrics is run on: thirteen months of the
\* metro 31080 and up to MaxOthers other metros, with any of the three Zillow
\* columns, in the order data_cleaner.py writes or in another order
MasterHistory ==
    [last |-> MonthIndex(2024, 6), span |-> 13, gap |-> FALSE, null |-> "none"]

MasterFiles ==
    {Reorder(AsSeq([i \in DOMAIN MetroMaster(MasterHistory, n) |->
                 Restrict(MetroMaster(MasterHistory, n)[i],
                          {"cbsa_code", "date"} \cup cols)]), order) :
        n \in 0..MaxOthers,
        cols \in SUBSET {"zhvi", "rent_index", "inventory"},
        order \in {"written", "reversed", "rotated"}}

InitClean ==
    /\ \/ /\ \E sc \in Directories : master = DataDir(sc)
          /\ pc = "raw"
       \/ /\ master \in MasterFiles
          /\ pc = "metro_master"
       \/ /\ master \in V3CountyFiles
          /\ pc = "ca_county_master"
    /\ snapshot = << >>
    /\ result = NoTable

NextClean ==
    \/ LoadAndStandardize
    \/ MergeData
    \/ CleanData
    \/ SaveData
    \/ CalculateMetrics
    \/ CreateDarkPebbleMaster
    \/ CreateCountyMaster
    \/ V3Run

SpecClean == InitClean /\ [][NextClean]_vars

-----------------------------------------------------------------------------
(* Properties of the scoring methods                                       *)

\* the (input, output) columns of the min-max normalizations of a method
MinMaxColumns(p) ==
    CASE p \in {"calculate_scores", "ism_calculate_scores", "create_full_ranking"} ->
            {<<"affordability_raw", "affordability_norm">>,
             <<"growth_raw", "growth_norm">>,
             <<"demographic_raw", "demographic_norm">>,
             <<"yield_raw", "yield_norm">>}
      [] p = "calculate_scores_zscore" ->
            \* demographic_norm normalizes pop_growth * 10, which has its
            \* minimum and maximum where pop_growth has them
            {<<"affordability_raw", "affordability_norm">>,
             <<"growth_combined", "growth_norm">>,
             <<"pop_growth", "demographic_norm">>,
             <<"yield", "yield_norm">>}
      [] OTHER -> {}

\* the 0-100 rescaling of the composite in sungjin_methodology
RescaleColumns(p) ==
    IF p = "create_full_ranking"
    THEN {<<"sungjin_score", "sungjin_score_norm">>}
    ELSE {}

\* the (input, output) columns of the z-score normalizations of a method
ZColumns(p) ==
    CASE p = "calculate_scores_zscore" ->
            {<<"growth_combined", "z_growth">>, <<"price", "z_price">>,
             <<"pop_growth", "z_demographics">>, <<"yield", "z_yield">>}
      [] p = "create_full_ranking" ->
            {<<"yoy_growth", "z_yoy">>, <<"cagr_3y", "z_cagr">>,
             <<"price", "z_price">>, <<"pop_growth", "z_pop">>}
      [] p = "v3_score" ->
            {<<"growth_combined", "z_growth">>, <<"actual_yield", "z_yield">>,
             <<"rent_yoy_final", "z_rent_growth">>, <<"price", "z_price">>,
             <<"pop_growth", "z_demographics">>}
      [] OTHER -> {}

\* every entry of the column is the same non-null value
ConstantColumn(t, col) ==
    \A i, j \in DOMAIN t : ~IsNaN(t[i][col]) /\ t[i][col] = t[j][col]

\* no entry is null and two entries differ
TwoDistinct(t, col) ==
    /\ \A i \in DOMAIN t : ~IsNaN(t[i][col])
    /\ \E i, j \in DOMAIN t : t[i][col] # t[j][col]

\* C1: every min-max normalization of the scoring modules, the component
\* normalizers and the 0-100 rescaling of the Sungjin composite alike, gives
\* 50 to every entity when the input values of the candidate set are all
\* equal (and so never the null of a division by zero).
C1_ConstantInputScoresFifty ==
    \A cols \in MinMaxColumns(pc) \cup RescaleColumns(pc) :
        ConstantColumn(result.table, cols[1])
            => \A i \in DOMAIN result.table : result.table[i][cols[2]] = Num(50)

\* C2: when a candidate set has at least two distinct non-null input values,
\* each min-max normalized component lies in [0, 100], is 0 exactly for the
\* entities whose input is the minimum and 100 exactly for those whose input
\* is the maximum.
C2_MinMaxRange ==
    \A cols \in MinMaxColumns(pc) :
        LET raw == Column(result.table, cols[1])
            norm == Column(result.table, cols[2])
        IN  TwoDistinct(result.table, cols[1])
                => \A i \in DOMAIN norm :
                      /\ FLeq(Num(0), norm[i]) /\ FLeq(norm[i], Num(100))
                      /\ norm[i] = Num(0) <=> raw[i] = SMin(raw)
                      /\ norm[i] = Num(100) <=> raw[i] = SMax(raw)

\* three prices: some affordability score lies strictly between 0 and 100
C2_Witness ==
    /\ pc = "calculate_scores"
    /\ TwoDistinct(result.table, "affordability_raw")
    /\ \E i \in DOMAIN result.table :
          /\ FLess(Num(0), result.table[i].affordability_norm)
          /\ FLess(result.table[i].affordability_norm, Num(100))

\* C3: every z-score normalization of the scoring modules gives exactly 0
\* (never null) to every entity when the values of the series, of one or
\* more entities, are all equal.
C3_ConstantSeriesScoresZero ==
    \A cols \in ZColumns(pc) :
        ConstantColumn(result.table, cols[1])
            => \A i \in DOMAIN result.table : result.table[i][cols[2]] = ZZero

\* the four normalized components in the order of the min-max weight sets
Components(r) ==
    <<r.affordability_norm, r.growth_norm, r.demographic_norm, r.yield_norm>>

\* the weights carried by the terms of a weighted z-score sum
TermWeights(zsum) == [k \in DOMAIN zsum |-> zsum[k].w]

C5_AffordabilityInverseOfPrice ==
    LET t == result.table
        negated == [i \in DOMAIN t |-> FSub(Num(0), t[i].price)]
    IN  /\ pc \in {"calculate_scores", "calculate_scores_zscore",
                   "ism_calculate_scores", "create_full_ranking"}
              => \A i, j \in DOMAIN t :
                    FLess(t[i].price, t[j].price)
                        => FLess(t[j].affordability_norm, t[i].affordability_norm)
        /\ pc \in {"calculate_scores_zscore", "v3_score"}
              => \A i, j \in DOMAIN t :
                    FLess(t[i].price, t[j].price)
                        => ZLess(t[j].z_affordability, t[i].z_affordability)
        /\ pc = "calculate_scores_zscore"
              => Column(t, "z_affordability") = zscore(negated)
        /\ pc = "v3_score"
              => Column(t, "z_affordability") = v3_zscore(negated)

\* two prices under the z-score method, the cheaper entity ahead
C5_Witness ==
    /\ pc = "calculate_scores_zscore"
    /\ \E i, j \in DOMAIN result.table :
          /\ FLess(result.table[i].price, result.table[j].price)
          /\ ZLess(result.table[j].z_affordability,
                   result.table[i].z_affordability)

-----------------------------------------------------------------------------
(* Properties of the metric engine and of the snapshot builders           *)

LoaderPcs ==
    {"load_all_county_data", "zscore_load_all_county_data",
     "v3_load_county_data", "our_metrics", "ism_load_county_data"}

\* the growth metrics of calculate_metrics: column, input column, lookback
GrowthMetrics ==
    {<<"price_mom", "zhvi", 1>>, <<"price_yoy", "zhvi", 12>>,
     <<"price_3y_cagr", "zhvi", 36>>, <<"rent_mom", "rent_index", 1>>,
     <<"rent_yoy", "rent_index", 12>>, <<"inventory_yoy", "inventory", 12>>}

MetricIsNull(row, name) ==
    IF name = "price_3y_cagr" THEN IsNaN(row[name].ratio) ELSE IsNaN(row[name])

\* the rows of the same metro as row i that are dated `months` months before
\* it and carry a value in column col
Lookback(t, i, col, months) ==
    {j \in DOMAIN t : /\ t[j].cbsa_code = t[i].cbsa_code
                      /\ t[j].date = t[i].date - months
                      /\ ~IsNaN(t[j][col])}

\* C6: in the table of calculate_metrics every growth metric of a row is null
\* when the row's metro has no observation, or a null one, at the lookback
\* month (1, 12 or 36 months before the row).
C6_GrowthNullWithoutLookback ==
    pc = "calculate_metrics"
        => \A i \in DOMAIN result.table : \A g \in GrowthMetrics :
              Lookback(result.table, i, g[2], g[3]) = {}
                  => MetricIsNull(result.table[i], g[1])

\* the counties of the master table
Counties == {master[i].RegionName : i \in DOMAIN master}

\* the rows of a county in date order, and those with a price
RowsOfCounty(e) == EntityRows(master, "RegionName", e)

ValidRows(e) == SelectSeq(RowsOfCounty(e), LAMBDA r : ~IsNaN(r.zhvi))

\* the rows a builder computes the metrics of a county from
SeenRows(e) == IF pc = "our_metrics" THEN ValidRows(e) ELSE RowsOfCounty(e)

InSnapshot(e) == \E k \in DOMAIN snapshot : snapshot[k].county = e

\* the price of the county `months` months before its latest row, if any
PriceBefore(rows, months) ==
    {rows[j].zhvi : j \in {j \in DOMAIN rows :
                              /\ rows[j].date = rows[Len(rows)].date - months
                              /\ ~IsNaN(rows[j].zhvi)}}

\* within a week of three years
NearThreeYears(years) ==
    FLess(Rat(298, 100), years) /\ FLess(years, Rat(302, 100))

\* C7: the 3-year CAGR is (value[t] / value[t-36]) ^ (1/3) - 1 with value[t-36]
\* the price 36 months before the latest one and no earlier price, in
\* calculate_metrics and in every snapshot builder, for any history that
\* reaches back 36 months or more.
C7_CagrFromThirtySixMonths ==
    /\ pc = "calculate_metrics"
          => \A i \in DOMAIN result.table :
                \A j \in Lookback(result.table, i, "zhvi", 36) :
                    ~IsNaN(result.table[i].zhvi)
                        => result.table[i].price_3y_cagr
                              = [ratio |-> FDiv(result.table[i].zhvi,
                                                result.table[j].zhvi),
                                 years |-> Num(3)]
    /\ pc \in LoaderPcs
          => \A k \in DOMAIN snapshot :
                LET rows == SeenRows(snapshot[k].county)
                IN  \A p \in PriceBefore(rows, 36) :
                        ~IsNaN(rows[Len(rows)].zhvi)
                            => /\ snapshot[k].cagr_3y.ratio
                                      = FDiv(rows[Len(rows)].zhvi, p)
                               /\ NearThreeYears(snapshot[k].cagr_3y.years)

\* C8: year-over-year growth is value[t] / value[t-12] - 1 (in percent in the
\* snapshot builders) with value[t-12] the same entity's observation exactly
\* 12 calendar months before t, in calculate_metrics also when a month of the
\* series is missing, and in the snapshot builders.
C8_YoyFromTwelveMonths ==
    /\ pc = "calculate_metrics"
          => \A i \in DOMAIN result.table :
                \A j \in Lookback(result.table, i, "zhvi", 12) :
                    ~IsNaN(result.table[i].zhvi)
                        => result.table[i].price_yoy
                              = FSub(FDiv(result.table[i].zhvi,
                                          result.table[j].zhvi), Num(1))
    /\ pc \in LoaderPcs
          => \A k \in DOMAIN snapshot :
                LET rows == SeenRows(snapshot[k].county)
                IN  \A p \in PriceBefore(rows, 12) :
                        ~IsNaN(rows[Len(rows)].zhvi)
                            => snapshot[k].yoy_growth
                                  = FMul(FSub(FDiv(rows[Len(rows)].zhvi, p),
                                              Num(1)), Num(100))

\* the county has no observation 36 months or more before its latest one
LacksThreeYears(rows) ==
    \A j \in DOMAIN rows : rows[j].date > rows[Len(rows)].date - 36

\* C9 as stated: a county with a price appears in the snapshot that is
\* ranked, and its 3-year CAGR is null when its history is shorter than the
\* 36-month lookback.
C9_ShortHistoryKeptWithNull ==
    pc \in LoaderPcs
        => \A e \in Counties :
              ValidRows(e) # << >>
                  => \E k \in DOMAIN snapshot :
                        /\ snapshot[k].county = e
                        /\ LacksThreeYears(SeenRows(e))
                              => IsNaN(snapshot[k].cagr_3y.ratio)

\* C9 as amended: load_all_county_data (both modules) and the V3
\* load_county_data leave out every county with fewer than 36 rows; the loops
\* of our_methodology and of InvestmentScoringMethodology.load_county_data
\* leave out exactly the counties with fewer than 12 rows, and a county they
\* keep that has no observation 36 months or more before its latest one gets
\* the 3-year CAGR 0, not null.
C9_ShortHistoryDropped ==
    /\ pc \in {"load_all_county_data", "zscore_load_all_county_data"}
          => \A e \in Counties :
                InSnapshot(e)
                    <=> /\ Len(RowsOfCounty(e)) >= 36
                        /\ RowsOfCounty(e)[Len(RowsOfCounty(e))].date
                              >= MonthIndex(2023, 1)
                        /\ ~IsNaN(RowsOfCounty(e)[Len(RowsOfCounty(e))].zhvi)
    /\ pc = "v3_load_county_data"
          => \A e \in Counties : InSnapshot(e) <=> Len(RowsOfCounty(e)) >= 36
    /\ pc \in {"our_metrics", "ism_load_county_data"}
          => /\ \A e \in Counties : InSnapshot(e) <=> Len(SeenRows(e)) >= 12
             /\ \A k \in DOMAIN snapshot :
                   LacksThreeYears(SeenRows(snapshot[k].county))
                       => snapshot[k].cagr_3y = CagrZero

\* a county with 13 to 35 rows and a price in its last row is left out by
\* load_all_county_data
C9_Witness ==
    /\ pc = "load_all_county_data"
    /\ \E e \in Counties :
          /\ Len(RowsOfCounty(e)) \in 13..35
          /\ ~IsNaN(RowsOfCounty(e)[Len(RowsOfCounty(e))].zhvi)
          /\ ~InSnapshot(e)

\* the last row of the county has no price, an earlier row has one
LastPriceNull(e) ==
    /\ IsNaN(RowsOfCounty(e)[Len(RowsOfCounty(e))].zhvi)
    /\ ValidRows(e) # << >>

\* C10 as stated: the snapshot of a county carries its most recent non-null
\* price; a county whose last row has a null price and which has at least 36
\* recent rows with a price is scored from the earlier observation, not
\* skipped.
C10_LatestValidPrice ==
    pc \in LoaderPcs
        => \A e \in Counties :
              (/\ Len(ValidRows(e)) >= 36
               /\ ValidRows(e)[Len(ValidRows(e))].date >= MonthIndex(2023, 1))
                  => \E k \in DOMAIN snapshot :
                        /\ snapshot[k].county = e
                        /\ snapshot[k].price = ValidRows(e)[Len(ValidRows(e))].zhvi

\* C10 as amended: the snapshot carries the price of the county's last row.
\* load_all_county_data (both modules) leaves out a county whose last row
\* has a null price; the V3 load_county_data and
\* InvestmentScoringMethodology.load_county_data keep it with the null price;
\* only FullCountyRanking, which drops the rows without a price first, takes
\* the most recent non-null price.
C10_LastRowPrice ==
    /\ pc \in {"load_all_county_data", "zscore_load_all_county_data"}
          => /\ \A e \in Counties : LastPriceNull(e) => ~InSnapshot(e)
             /\ \A k \in DOMAIN snapshot :
                   LET rows == RowsOfCounty(snapshot[k].county)
                   IN  /\ snapshot[k].price = rows[Len(rows)].zhvi
                       /\ ~IsNaN(snapshot[k].price)
    /\ pc \in {"v3_load_county_data", "ism_load_county_data"}
          => \A k \in DOMAIN snapshot :
                LET rows == RowsOfCounty(snapshot[k].county)
                IN  snapshot[k].price = rows[Len(rows)].zhvi
    /\ pc = "our_metrics"
          => \A k \in DOMAIN snapshot :
                LET rows == ValidRows(snapshot[k].county)
                IN  snapshot[k].price = rows[Len(rows)].zhvi

\* a county with 36 or more recent rows, the last without a price, is left
\* out by load_all_county_data
C10_Witness ==
    /\ pc = "load_all_county_data"
    /\ \E e \in Counties :
          /\ LastPriceNull(e)
          /\ Len(RowsOfCounty(e)) >= 36
          /\ RowsOfCounty(e)[Len(RowsOfCounty(e))].date >= MonthIndex(2023, 1)
          /\ ~InSnapshot(e)

-----------------------------------------------------------------------------
(* Properties of the cleaners                                              *)

\* the rows of a table that carry the key of the row r
KeyCount(df, r) ==
    Cardinality({i \in DOMAIN df :
        df[i].cbsa_code = r.cbsa_code /\ df[i].date = r.date})

\* two tables have the same (cbsa_code, date) rows, each as many times
SameKeyRows(a, b) ==
    /\ Len(a) = Len(b)
    /\ \A i \in DOMAIN a : KeyCount(a, a[i]) = KeyCount(b, a[i])

\* the row carries no value in the column: the column is absent or null
NoValue(r, col) == col \notin DOMAIN r \/ IsNaN(r[col])

AfterMerge == pc \in {"merge_data", "clean_data", "run_returned"}

Merged ==
    merge_data(snapshot.zillow, snapshot.census, snapshot.bls, snapshot.fhfa,
               snapshot.freddie)

\* the rows of a merged table that clean_data keeps, in its order
KeptRows(merged) ==
    LET kept == {i \in DOMAIN merged : merged[i].date <= Now}
    IN  AsSeq([n \in 1..Cardinality(kept) |->
            CHOOSE i \in kept : Cardinality({j \in kept : j < i}) = n - 1])

\* what the known values of the entity of row i alone give for its cell in
\* the column c: the value on the line between the nearest known values
\* before and after it, the nearest known value when one side has none, null
\* when the entity has no value at all
OwnFill(merged, i, c) ==
    LET own == {j \in DOMAIN merged :
                   merged[j].cbsa_code = merged[i].cbsa_code /\ ~IsNaN(merged[j][c])}
        before == {j \in own : j <= i}
        after == {j \in own : j >= i}
        lo == CHOOSE j \in before : \A l \in before : l <= j
        hi == CHOOSE j \in after : \A l \in after : j <= l
    IN  IF own = {} THEN NaN
        ELSE IF before = {} THEN merged[hi][c]
        ELSE IF after = {} \/ lo = hi THEN merged[lo][c]
        ELSE FAdd(merged[lo][c],
                  FDiv(FMul(Num(i - lo), FSub(merged[hi][c], merged[lo][c])),
                       Num(hi - lo)))

\* C13: gap filling in clean_data does not cross an entity boundary.  Every
\* numeric cell of the cleaned table holds what the known values of its own
\* entity give for it, so a column that is entirely null for an entity stays
\* entirely null for it.
C13_FillWithinEntity ==
    pc = "clean_data" =>
        LET merged == Merged
            kept == KeptRows(merged)
        IN  /\ Len(result.table) = Len(kept)
            /\ \A n \in DOMAIN result.table :
                   \A c \in NumericColumns(merged) :
                       result.table[n][c] = OwnFill(merged, kept[n], c)

\* a cleaned master of two metros in which a null cell of one metro was
\* filled and a column that is entirely null for the other stayed null
C13_Witness ==
    /\ pc = "clean_data"
    /\ LET merged == Merged
           kept == KeptRows(merged)
       IN  /\ \E n \in DOMAIN result.table : \E c \in NumericColumns(merged) :
                  IsNaN(merged[kept[n]][c]) /\ ~IsNaN(result.table[n][c])
           /\ \E n, k \in DOMAIN result.table : \E c \in NumericColumns(merged) :
                  /\ result.table[n].cbsa_code # result.table[k].cbsa_code
                  /\ ~IsNaN(result.table[k][c])
                  /\ \A j \in DOMAIN result.table :
                         result.table[j].cbsa_code = result.table[n].cbsa_code
                             => IsNaN(result.table[j][c])

\* the rows ascend by (cbsa_code, date)
AscendingByCodeDate(df) ==
    \A i \in 1..(Len(df) - 1) :
        \/ df[i].cbsa_code < df[i + 1].cbsa_code
        \/ (df[i].cbsa_code = df[i + 1].cbsa_code /\ df[i].date <= df[i + 1].date)

\* C14: the master is sorted ascending by (entity, date) after merge_data
\* and after clean_data, and the lookback metrics of calculate_metrics are
\* those of the rows taken in ascending date order within each entity,
\* whatever the order of the rows of its input.
C14_LookbackOnSortedRows ==
    /\ pc \in {"merge_data", "clean_data"} => AscendingByCodeDate(result.table)
    /\ pc = "calculate_metrics" =>
           RowsOf(result.table) = RowsOf(calculate_metrics(SortByCodeDate(master), TRUE))

\* every row of the table is dated on the first of a month
FirstOfMonth(df) == \A i \in DOMAIN df : DayOf(df[i].date) = 1

\* C15: every series the loaders of DataCleaner hand to merge_data, the
\* Zillow series of home values and rents as the BLS, FHFA, Census and
\* Freddie Mac series, is dated on the first of the month.
C15_SeriesOnFirstOfMonth ==
    pc = "standardized" =>
        /\ FirstOfMonth(snapshot.zillow)
        /\ FirstOfMonth(snapshot.census)
        /\ FirstOfMonth(snapshot.bls)
        /\ FirstOfMonth(snapshot.fhfa)
        /\ FirstOfMonth(snapshot.freddie)

\* the values the table holds in the column for the entity and the date
ValuesAt(df, code, date, col) ==
    {df[i][col] : i \in {j \in DOMAIN df : df[j].cbsa_code = code /\ df[j].date = date}}

\* a monthly table that carries the quarterly observations `obs` (records
\* of an entity, a year, a quarter 1..4 and a value) on the first month of
\* their quarters, and between two consecutive quarters of an entity the
\* values a + k * (b - a) / 3
QuarterlyOnMonths(df, col, obs) ==
    LET month(o) == MonthIndex(o.year, 3 * (o.quarter - 1) + 1)
    IN  /\ FirstOfMonth(df)
        /\ \A o \in obs :
               ValuesAt(df, o.code, MonthStart(month(o)), col) = {o.value}
        /\ \A a, b \in obs :
               (a.code = b.code /\ month(b) = month(a) + 3) =>
                   \A k \in 1..2 :
                       ValuesAt(df, a.code, MonthStart(month(a) + k), col)
                           = {FAdd(a.value,
                                   FDiv(FMul(Num(k), FSub(b.value, a.value)), Num(3)))}

\* the observations of the wage file
WageObservations ==
    {[code |-> r.metro_code, year |-> r.year,
      quarter |-> CASE r.period = "Q01" -> 1 [] r.period = "Q02" -> 2
                                       [] r.period = "Q03" -> 3 [] OTHER -> 4,
      value |-> r.value] : r \in RowsOf(master.wages.rows)}

\* the observations of the FHFA file that load_and_standardize_fhfa takes
FhfaObservations ==
    {[code |-> r.place_id, year |-> r.yr, quarter |-> r.period, value |-> r.index_sa] :
        r \in {x \in RowsOf(master.fhfa.rows) :
                  /\ x.hpi_type = "traditional"
                  /\ x.place_id \in {snapshot.fhfa[i].cbsa_code : i \in DOMAIN snapshot.fhfa}}}

\* C16: a quarterly series lies on the first month of each quarter and the
\* two months between consecutive quarters a and b take a + k * (b - a) / 3,
\* in the wage path of create_dark_pebble_master as in the FHFA path of
\* DataCleaner, whose quarter-to-month mappings agree.
C16_QuarterlyInterpolation ==
    /\ (pc = "dark_pebble" /\ ~result.raised)
           => QuarterlyOnMonths(result.wages_monthly, "wage", WageObservations)
    /\ pc = "standardized"
           => QuarterlyOnMonths(snapshot.fhfa, "hpi", FhfaObservations)
    /\ \A n \in 1..4 : q_map[<<"Q01", "Q02", "Q03", "Q04">>[n]] = QuarterMonth(n)

\* the wages 1000 and 1030 of two consecutive quarters of Los Angeles, with
\* 1010 and 1020 on the months between them
C16_Witness ==
    /\ pc = "dark_pebble"
    /\ ~result.raised
    /\ ValuesAt(result.wages_monthly, 31080, MonthStart(MonthIndex(2023, 10)), "wage")
           = {Num(1000)}
    /\ ValuesAt(result.wages_monthly, 31080, MonthStart(MonthIndex(2023, 11)), "wage")
           = {Num(1010)}
    /\ ValuesAt(result.wages_monthly, 31080, MonthStart(MonthIndex(2023, 12)), "wage")
           = {Num(1020)}
    /\ ValuesAt(result.wages_monthly, 31080, MonthStart(MonthIndex(2024, 1)), "wage")
           = {Num(1030)}

\* the annual estimates of an entity made of the given counties: per estimate
\* year the sum over the rows of the population file
AnnualPoints(file, counties) ==
    AsSeq([k \in DOMAIN file.years |->
        SSum(AsSeq([i \in DOMAIN file.rows |->
            IF CountyFips(file.rows[i].STATE_, file.rows[i].COUNTY) \in counties
            THEN file.rows[i].estimates[k] ELSE Num(0)]))])

\* the counties the crosswalk lists under a CBSA code
CountiesOf(crosswalk, code) ==
    {CountyFips(crosswalk.rows[i].fipsstatecode, crosswalk.rows[i].fipscountycode) :
        i \in {j \in DOMAIN crosswalk.rows : crosswalk.rows[j].cbsacode = code}}

\* the value is the one the month m takes in the monthly series of the annual
\* points: interpolated between two points, the last one after the last
\* point and up to the current month
OnPopulationSeries(points, years, m, value) ==
    LET jan(k) == MonthIndex(years[k], 1)
    IN  /\ \A k \in 1..(Len(years) - 1) :
               (jan(k) <= m /\ m <= jan(k + 1)) =>
                   value = FAdd(points[k],
                                FDiv(FMul(Num(m - jan(k)), FSub(points[k + 1], points[k])),
                                     Num(jan(k + 1) - jan(k))))
        /\ (jan(Len(years)) <= m /\ m <= MonthOf(Now)) => value = points[Len(years)]

\* every row of the metro table holds the population of its month
MetroPopulation(df) ==
    \A i \in DOMAIN df :
        /\ "population" \in DOMAIN df[i]
        /\ OnPopulationSeries(
               AnnualPoints(master.census.population,
                            CountiesOf(master.census.crosswalk, df[i].cbsa_code)),
               master.census.population.years, MonthOf(df[i].date), df[i].population)

\* every row of the county table holds the population of its month
CountyPopulation(df) ==
    \A i \in DOMAIN df :
        OnPopulationSeries(AnnualPoints(master.census.population, {df[i].fips}),
                           master.census.population.years,
                           MonthOf(df[i].date), df[i].population)

\* C17: the annual population is placed on 1 January of each estimate year,
\* interpolated linearly on the months between two estimates and carried
\* forward after the last one up to the current month, in the census series
\* and in the population column of the metro master and the county masters.
C17_PopulationSeries ==
    /\ (pc = "standardized" /\ master.census.population.exists)
           => /\ FirstOfMonth(snapshot.census)
              /\ MetroPopulation(snapshot.census)
    /\ (pc \in {"merge_data", "clean_data", "run_returned"}
           /\ master.census.population.exists)
           => MetroPopulation(result.table)
    /\ (pc = "county_master" /\ result.written)
           => CountyPopulation(result.table)

\* a key of five decimal digits whose first two are the state code on two
\* digits and whose last three are the county code
IsFipsOf(fips, state, county) ==
    /\ Len(fips) = 5
    /\ \A k \in 1..5 : fips[k] \in 0..9
    /\ 10 * fips[1] + fips[2] = state
    /\ 100 * fips[3] + 10 * fips[4] + fips[5] = county

\* every key of the table is the key of a county of the source rows
KeysOfCounties(keys, rows, state_col, county_col) ==
    \A fips \in keys :
        \E i \in DOMAIN rows : IsFipsOf(fips, rows[i][state_col], rows[i][county_col])

\* the key built from any state code 1..99 and county code 0..999
AllCodesGiveFips ==
    \A state \in 1..99 : \A county \in 0..999 :
        IsFipsOf(CountyFips(state, county), state, county)

\* C18: after the crosswalk join the county key has exactly five characters,
\* all digits, and its first two are the zero-padded state code of the row,
\* for every state code 1..99 and county code 0..999.
C18_FipsFiveDigits ==
    /\ AllCodesGiveFips
    /\ (pc = "dark_pebble" /\ ~result.raised)
           => /\ KeysOfCounties({result.table[i].fips : i \in DOMAIN result.table},
                                master.zhvi_county.rows,
                                "StateCodeFIPS", "MunicipalCodeFIPS")
              /\ KeysOfCounties({result.table[i].fips : i \in DOMAIN result.table},
                                master.census.crosswalk.rows,
                                "fipsstatecode", "fipscountycode")
    /\ (pc = "county_master" /\ result.written)
           => KeysOfCounties({result.table[i].fips : i \in DOMAIN result.table},
                             master.zhvi_county.rows,
                             "StateCodeFIPS", "MunicipalCodeFIPS")

\* Los Angeles County, state 6 and county 37, under the key 06037
C18_Witness ==
    /\ pc = "dark_pebble"
    /\ ~result.raised
    /\ \E i \in DOMAIN result.table : result.table[i].fips = <<0, 6, 0, 3, 7>>

\* C19: the master table holds at most one row per entity and date: neither a
\* county listed under two CBSA codes nor an optional source with two rows for
\* one (cbsa_code, date) makes a join of merge_data or of
\* create_dark_pebble_master multiply a base row.
C19_OneRowPerEntityDate ==
    /\ pc \in {"merge_data", "clean_data", "run_returned"}
           => UniqueOn(result.table, {"cbsa_code", "date"})
    /\ (pc = "dark_pebble" /\ ~result.raised)
           => UniqueOn(result.table, {"fips", "date"})

\* the file without the regions whose name the lookup does not hold
WithoutUnmapped(file) ==
    [file EXCEPT !.rows = SelectSeq(@, LAMBDA r : r.RegionName \in DOMAIN zillow_mapping)]

\* the data directory without those regions in any Zillow metro file
MappedOnly(dir) ==
    [dir EXCEPT !.zillow = [m \in DOMAIN dir.zillow |-> WithoutUnmapped(dir.zillow[m])]]

\* the codes of the lookup
MappedCodes == {zillow_mapping[name] : name \in DOMAIN zillow_mapping}

\* C20: a region whose name is not a key of the lookup is dropped and the run
\* goes on: the standardized Zillow table holds no row of it and is the table
\* of the mapped regions alone, and create_dark_pebble_master raises nothing
\* for it and builds the table it builds from the mapped regions alone.
C20_UnmappedRegionDropped ==
    /\ pc = "standardized"
           => /\ \A i \in DOMAIN snapshot.zillow :
                     snapshot.zillow[i].cbsa_code \in MappedCodes
              /\ snapshot.zillow = load_and_standardize_zillow(MappedOnly(master).zillow)
    /\ pc = "dark_pebble"
           => \E pad \in BOOLEAN :
                 LET mapped == create_dark_pebble_master(MappedOnly(master), pad)
                 IN  /\ result.raised = mapped.raised
                     /\ result.table = mapped.table

\* a home value file with Los Angeles and with Bozeman, which the lookup does
\* not hold, standardized to the rows of Los Angeles
C20_Witness ==
    /\ pc = "standardized"
    /\ \E r \in DOMAIN master.zillow["zhvi"].rows :
           master.zillow["zhvi"].rows[r].RegionName \notin DOMAIN zillow_mapping
    /\ \E i \in DOMAIN snapshot.zillow : snapshot.zillow[i].cbsa_code = 31080

\* C21: when the crosswalk file is absent, every component that depends on it
\* fails with an error naming the crosswalk: DataCleaner does not go on to a
\* master table without population, and ZScoreV3Scoring.run does not go on to
\* map_rent_to_county.
C21_CrosswalkAbsentFailsLoudly ==
    /\ pc \in {"merge_data", "clean_data", "run_returned"}
           => master.census.crosswalk.exists
    /\ (pc = "v3_run" /\ ~result.crosswalk_found)
           => /\ result.stage # "map_rent_to_county"
              /\ result.raised \notin {"none", "TypeError", "KeyError"}

\* the long table holds exactly one row for every identifier and period
OneRowPerCell(df, id_col, ids, periods) ==
    \A id \in ids : \A c \in DOMAIN periods :
        Cardinality({i \in DOMAIN df : df[i][id_col] = id /\ df[i].date = periods[c]}) = 1

\* the pivot of the long table holds every non-null cell of the wide rows
PivotHoldsCells(df, id_col, metric, wide, periods) ==
    LET pivot == Pivot(df, id_col, "date", metric)
    IN  /\ ~pivot.raised
        /\ \A r \in DOMAIN wide : \A c \in DOMAIN periods :
               ~IsNaN(wide[r].values[c])
                   => pivot.cells[<<wide[r][id_col], periods[c]>>] = wide[r].values[c]

\* the rows of the county file of one state, under their county keys
StateRows(file, state) ==
    LET rows == SelectSeq(file.rows, LAMBDA r : r.StateName = state)
    IN  AsSeq([r \in DOMAIN rows |->
            [fips |-> CountyFips(rows[r].StateCodeFIPS, rows[r].MunicipalCodeFIPS),
             values |-> rows[r].values]])

\* the rows of a Zillow metro file of the target metros, under their codes
TargetRows(file) ==
    LET rows == SelectSeq(file.rows,
                          LAMBDA r : /\ r.RegionName \in DOMAIN zillow_mapping
                                     /\ zillow_mapping[r.RegionName] \in target_metros)
    IN  AsSeq([r \in DOMAIN rows |->
            [cbsa_code |-> zillow_mapping[rows[r].RegionName],
             values |-> rows[r].values]])

\* C22: reshaping a wide table with unique identifier rows to long form
\* yields exactly one row per identifier and period column, and the pivot of
\* the long table on identifier and period holds every non-null cell of the
\* wide table with its value.  The county table is the long form of its file;
\* the standardized Zillow table holds the long forms of all its files.
C22_MeltPivotRoundTrip ==
    /\ (pc = "county_master" /\ result.written /\ result.table # << >>)
           => LET wide == StateRows(master.zhvi_county, result.table[1].StateName)
                  periods == master.zhvi_county.headers
              IN  /\ Len(result.table) = Len(wide) * Len(periods)
                  /\ OneRowPerCell(result.table, "fips",
                                   {wide[r].fips : r \in DOMAIN wide}, periods)
                  /\ PivotHoldsCells(result.table, "fips", "zhvi", wide, periods)
    /\ pc = "standardized"
           => \A k \in DOMAIN ZillowMetrics :
                 LET file == master.zillow[ZillowMetrics[k]]
                     wide == TargetRows(file)
                 IN  (file.exists /\ wide # << >>)
                         => /\ OneRowPerCell(snapshot.zillow, "cbsa_code",
                                             {wide[r].cbsa_code : r \in DOMAIN wide},
                                             file.headers)
                            /\ PivotHoldsCells(snapshot.zillow, "cbsa_code",
                                               ZillowMetrics[k], wide, file.headers)

\* the county file of Texas with a null cell, melted to two counties times
\* MaxMonths rows
C22_Witness ==
    /\ pc = "county_master"
    /\ result.written
    /\ Len(result.table) = 2 * MaxMonths
    /\ \E i \in DOMAIN result.table : IsNaN(result.table[i].zhvi)
    /\ \E i \in DOMAIN result.table : ~IsNaN(result.table[i].zhvi)

\* the rows of the two tables with the same metro and date agree on the
\* columns, and the tables hold the same metros and dates
AgreeOn(a, b, cols) ==
    /\ {<<a[i].cbsa_code, a[i].date>> : i \in DOMAIN a}
           = {<<b[j].cbsa_code, b[j].date>> : j \in DOMAIN b}
    /\ Len(a) = Len(b)
    /\ \A i \in DOMAIN a : \A j \in DOMAIN b :
           (a[i].cbsa_code = b[j].cbsa_code /\ a[i].date = b[j].date)
               => \A c \in cols \cap Columns(a) \cap Columns(b) : a[i][c] = b[j][c]

\* C23: calculate_metrics is idempotent: applied to its own output it gives,
\* for every metro and date, the same price_mom, price_yoy, price_3y_cagr,
\* rent_yoy and rental_yield as the first application, and it leaves the
\* source columns zhvi and rent_index as they are in the master.
C23_CalculateMetricsIdempotent ==
    pc = "calculate_metrics"
        => \A pad \in BOOLEAN :
              result.table = calculate_metrics(master, pad)
                  => LET again == calculate_metrics(result.table, pad)
                     IN  /\ Columns(again) = Columns(result.table)
                         /\ AgreeOn(again, result.table,
                                    {"price_mom", "price_yoy", "price_3y_cagr",
                                     "rent_yoy", "rental_yield"})
                         /\ AgreeOn(again, master, {"zhvi", "rent_index"})
                         /\ AgreeOn(result.table, master, {"zhvi", "rent_index"})

\* a master whose price is null in one month, with the growth over one and
\* three years and the yield computed on a later row
C23_Witness ==
    /\ pc = "calculate_metrics"
    /\ \E i \in DOMAIN result.table : IsNaN(result.table[i].zhvi)
    /\ \E i \in DOMAIN result.table :
           /\ ~IsNaN(result.table[i].price_yoy)
           /\ ~IsNaN(result.table[i].price_3y_cagr.ratio)
           /\ ~IsNaN(result.table[i].rent_yoy)
           /\ ~IsNaN(result.table[i].rental_yield)

\* the wall-clock dates of runs on the same files: the run of `Now`, the
\* runs a month before and a month after it, and a run before the first of
\* January of the last population estimate
RunDates ==
    {DateOf(MonthIndex(2023, 12), 15), DateOf(MonthIndex(2024, 2), 15), Now,
     DateOf(MonthIndex(2024, 4), 15)}

\* the table clean_data returns to a run of DataCleaner.run on the files of
\* `master` that reads the clock `clock` at both of its datetime.now() calls
CleanedAt(clock) ==
    clean_data(merge_data(snapshot.zillow,
                          load_and_standardize_census(master.census, clock),
                          snapshot.bls, snapshot.fhfa, snapshot.freddie),
               clock)

\* C24: a run is a function of its input tables alone: on the same files
\* load_and_standardize_census returns the same table and clean_data returns
\* the same table whatever the wall-clock date of the run.
C24_RunIndependentOfClock ==
    /\ pc = "standardized"
           => \A clock \in RunDates :
                  load_and_standardize_census(master.census, clock) = snapshot.census
    /\ pc = "clean_data"
           => \A clock \in RunDates : CleanedAt(clock) = result.table

\* the date of the last annual estimate of the population file, the first of
\* January of its latest year; the first date of all when there is no estimate
LastEstimateDate ==
    LET pop_file == master.census.population
    IN  IF ~pop_file.exists \/ pop_file.years = << >> THEN MonthStart(0)
        ELSE MonthStart(MonthIndex(
                 CHOOSE y \in {pop_file.years[k] : k \in DOMAIN pop_file.years} :
                     \A k \in DOMAIN pop_file.years : pop_file.years[k] <= y, 1))

\* C24 as amended: a run is a function of its input tables and of its
\* wall-clock date, which decides only where the table ends: of two runs on
\* the same files, both on or after the date of the last population estimate,
\* the earlier returns the rows of the later dated up to its own date, with
\* the same values.
C24_ClockOnlyCutsOff ==
    pc = "clean_data"
        => LET cleaned == [clock \in RunDates |-> CleanedAt(clock)]
           IN  /\ result.table = cleaned[Now]
               /\ \A a, b \in RunDates :
                      (LastEstimateDate <= a /\ a <= b)
                          => cleaned[a] = SelectSeq(cleaned[b],
                                                    LAMBDA r : r.date <= a)

\* a run that keeps a row which a run a month earlier on the same files
\* drops, both after the last population estimate, with the population of a
\* kept row known
C24_Witness ==
    /\ pc = "clean_data"
    /\ Len(CleanedAt(DateOf(MonthIndex(2024, 2), 15))) < Len(result.table)
    /\ CleanedAt(DateOf(MonthIndex(2024, 2), 15)) # << >>
    /\ LastEstimateDate <= DateOf(MonthIndex(2024, 2), 15)
    /\ \E i \in DOMAIN result.table :
           /\ "population" \in DOMAIN result.table[i]
           /\ ~IsNaN(result.table[i].population)

\* the weights of the header of scoring_all_counties_zscore_v3.py: growth,
\* income, affordability, demographics
V3HeaderWeights == <<Rat(40, 100), Rat(30, 100), Rat(20, 100), Rat(10, 100)>>

\* C25: the V3 composite weights growth 40%, income 30%, affordability 20%
\* and demographics 10%: the run uses these weights, and the z_score_v3 of
\* every scored county is that combination of its four component z-scores.
C25_V3WeightsAsHeader ==
    pc = "v3_score"
        => /\ result.weights[1] = V3HeaderWeights
           /\ \A i \in DOMAIN result.table :
                  LET r == result.table[i]
                  IN  ~IsNaN(r.z_score_v3)
                          => r.z_score_v3 =
                                 <<ZTimes(V3HeaderWeights[1], r.z_growth),
                                   ZTimes(V3HeaderWeights[2], r.z_income[1]),
                                   ZTimes(V3HeaderWeights[2], r.z_income[2]),
                                   ZTimes(V3HeaderWeights[3], r.z_affordability),
                                   ZTimes(V3HeaderWeights[4], r.z_demographics)>>

\* the row of a scored table for one county
RowOf(df, county) == df[CHOOSE i \in DOMAIN df : df[i].county = county]

\* C26: the final_score_old that calculate_scores_zscore keeps for comparison
\* is the final_score that calculate_scores gives the same county on the same
\* snapshot, so that ranking by it is the min-max ranking: of two counties
\* the one with the higher final_score_old has no lower final_score.
C26_OldScoreIsMinMaxScore ==
    pc = "calculate_scores_zscore"
        => LET minmax == calculate_scores(snapshot)
               final_score == [i \in DOMAIN result.table |->
                                  RowOf(minmax, result.table[i].county).final_score]
           IN  /\ \A i \in DOMAIN result.table :
                      result.table[i].final_score_old = final_score[i]
               /\ \A i, j \in DOMAIN result.table :
                      FLess(result.table[i].final_score_old,
                            result.table[j].final_score_old)
                          => ~FLess(final_score[j], final_score[i])

\* C27: every row that load_and_standardize_fhfa returns carries the CBSA code
\* of a target metro: the rows of the FHFA divisions 31084, 41884 and 19124
\* carry 31080, 41860 and 19100, so that they join the master.
C27_FhfaRowsCarryTargetCodes ==
    pc \in {"standardized", "merge_data", "clean_data", "run_returned"}
        => \A i \in DOMAIN snapshot.fhfa :
               snapshot.fhfa[i].cbsa_code \in target_metros

\* the ratio of a row is the ratio of its own price and rent
OwnPriceToRent(r) ==
    (~IsNaN(r.zhvi) /\ ~IsNaN(r.rent) /\ ~IsNaN(r.price_to_rent))
        => r.price_to_rent = FDiv(r.zhvi, FMul(r.rent, Num(12)))

\* C28: on every row of the saved dark-pebble master and of its latest
\* snapshot where zhvi, rent and price_to_rent are known, price_to_rent is
\* zhvi / (rent * 12) of the same row, also on the rows whose rent was
\* filled forward.
C28_PriceToRentOfOwnRow ==
    (pc = "dark_pebble" /\ ~result.raised)
        => /\ \A i \in DOMAIN result.table : OwnPriceToRent(result.table[i])
           /\ \A r \in result.snapshot : OwnPriceToRent(r)

\* C29: the ranks of N scored counties are a permutation of 1..N in the
\* descending order of the composite score, also when scores tie: no rank is
\* given twice and none is skipped, for the rank of save_results and for
\* the rank_zscore of show_ranking_differences.
C29_RanksArePermutation ==
    /\ pc = "save_results"
           => LET t == result.table
              IN  /\ {t[i].rank : i \in DOMAIN t} = 1..Len(t)
                  /\ \A i, j \in DOMAIN t :
                         FLess(t[j].final_score, t[i].final_score)
                             => t[i].rank < t[j].rank
    /\ pc = "show_ranking_differences"
           => /\ ~result.raised
              /\ LET t == result.table
                 IN  /\ {t[i].rank_zscore : i \in DOMAIN t} = 1..Len(t)
                     /\ \A i, j \in DOMAIN t :
                            ZSumLess(t[j].z_score_final, t[i].z_score_final)
                                => t[i].rank_zscore < t[j].rank_zscore

\* the rows of a table for one metro and date, in the order of the table
RowsAt(df, code, date) ==
    SelectSeq(df, LAMBDA r : r.cbsa_code = code /\ r.date = date)

====
